---- MODULE Spec2Model ----
(***************************************************************************)
(* The device-connection hub of webpa-common/device (manager.go) as used   *)
(* by tr1d1um: Connect / Disconnect / DisconnectIf / Route, the read pump  *)
(* and the write pump of every device, and the shared sync.Once teardown.  *)
(* The registry, the device's Send and the transaction tracker live in     *)
(* files of the package that are not part of the sources at hand; they are *)
(* modelled from the written specification (sections 3, 4.1, 4.2, 5).      *)
(* The retry transactor of xhttp (RetryTransactor, DefaultShouldRetry) has *)
(* a specification of its own, SpecRetry.                                  *)
(***************************************************************************)
EXTENDS Integers, Sequences, FiniteSets, TLC

\* ---------------------------------------------------------------- bounds
NumDev == 2       \* device objects (Connect attempts) in the registry runs
MaxCallers == 2   \* concurrent Route callers, one call each
MaxFrames == 2    \* inbound frames a device sends before its transport fails

MaxRetries == 2   \* largest o.Retries a retry transactor is built with

\* ------------------------------------------------- configuration (Options)
Limit == 1        \* o.maxDevices()
QueueSize == 2    \* o.deviceMessageQueueSize()
MaxListeners == 2 \* largest number of listeners a manager is built with
MaxEvents == 3    \* largest number of events dispatched in a run

Dev == 1..NumDev
PumpDev == {1}
Callers == 1..MaxCallers
IDSeq == <<"a", "b", "c">>
IDs == {IDSeq[i] : i \in 1..Len(IDSeq)}
PumpIDs == {"a"}
InCallers == {1}
NoID == "-"
Nil == "nil"

\* Request shapes a Route caller may submit: wire-format with cached raw
\* bytes and no reply expected, or another format without raw bytes that
\* expects a reply under correlation key 1.
Shapes ==
    { [Format |-> "Msgpack", Contents |-> "raw", Key |-> 0],
      [Format |-> "JSON", Contents |-> "", Key |-> 1] }

\* Inbound frames: a non-binary frame, a binary frame that does not decode,
\* and binary frames that decode to a message without / with a correlation key.
Frames ==
    { [kind |-> "text", key |-> 0],
      [kind |-> "malformed", key |-> 0],
      [kind |-> "wrp", key |-> 0],
      [kind |-> "wrp", key |-> 1] }

NoFrame == [kind |-> "none", key |-> 0, n |-> 0]
NoResponse == [Device |-> 0, Message |-> NoFrame, Format |-> "", Contents |-> <<>>]
NoEnv == [caller |-> 0, Message |-> 0, Format |-> "", Contents |-> "", Key |-> 0]

VARIABLES
    registry,      \* m.devices: the set of registered device objects
    devId,         \* d.id of every device object
    cpc,           \* where Connect stands for the device object
    connErr,       \* the error Connect returned for the device object
    conn,          \* the websocket of the device: none / open / closed
    closeCalls,    \* number of Close() calls made on the websocket
    shutdown,      \* d.shutdown is closed (requestClose was invoked)
    messages,      \* d.messages: the outbound queue of envelopes
    closeOnce,     \* the sync.Once shared by the two pumps
    tdBy,          \* the pump whose closure the sync.Once executed
    rp,            \* read pump: position and the frame just read
    wp,            \* write pump: position, envelope, writeError
    frames,        \* inbound frames read so far
    events,        \* events dispatched to the listeners, per device, in order
    transactions,  \* d.transactions: open correlation keys
    caller,        \* Route callers
    wire,          \* the frames written to the websocket, per device, in order
    acceptLog,     \* the callers whose envelopes a queue accepted, in order
    rt,            \* one call of a retry transactor
    options,       \* the Options the manager was built with
    ret,           \* what the last Disconnect / DisconnectIf returned
    auth,          \* authStatusTimer of every device
    lst,           \* one call of manager.dispatch and its listeners
    writing,       \* the goroutines inside a write call on the websocket, per device
    set            \* one call of ValidateAndDeduceSET

vars == <<registry, devId, cpc, connErr, conn, closeCalls, shutdown, messages,
          closeOnce, tdBy, rp, wp, frames, events, transactions, caller,
          wire, acceptLog, rt, options, ret, auth, lst, writing, set>>

hubVars == <<registry, devId, cpc, connErr, conn, closeCalls, shutdown, messages,
             closeOnce, tdBy, rp, wp, frames, events, transactions, caller,
             wire, acceptLog, options, ret, auth, writing, set>>

\* ---------------------------------------------------------------- events
Event(type, message, format, contents, error) ==
    [Type |-> type, Message |-> message, Format |-> format,
     Contents |-> contents, Error |-> error]

\* manager.dispatch: every listener is called with the event, synchronously.
dispatch(ev, d, e) == [ev EXCEPT ![d] = Append(@, e)]

\* ------------------------------------------------------------- registry
\* a registry that never refuses a device for its size
addErrorNoLimit(reg, ids, id) ==
    IF \E e \in reg : ids[e] = id THEN "DuplicateID" ELSE Nil

\* registry.add: an identifier that is present is rejected as a duplicate
\* (it is never replaced); otherwise a registry at its limit rejects the
\* device with CapacityExceeded.
addError(reg, ids, id) ==
    IF \E e \in reg : ids[e] = id THEN "DuplicateID"
    ELSE IF Cardinality(reg) >= options.maxDevices THEN "CapacityExceeded"
    ELSE Nil

\* registry.remove / removeIf: the devices taken out for a set of identifiers.
removed(reg, ids, which) == {e \in reg : ids[e] \in which}

\* device.requestClose on every removed device: d.shutdown is closed.
requestClose(sd, gone) == [e \in Dev |-> sd[e] \/ e \in gone]

\* the identifiers present in the registry (a filter matters only through
\* the registered identifiers it accepts)
RegisteredIDs == {devId[e] : e \in registry}

\* registry.get
get(reg, ids, id) == {e \in reg : ids[e] = id}

\* the retry transactor before any call
NoCall == [pc |-> "none", Retries |-> 0, ShouldRetry |-> "default", i |-> 0,
           invoked |-> <<>>, Counter |-> 0, response |-> 0, err |-> Nil]

\* ValidateAndDeduceSET before any call
NoSet ==
    [pc |-> "none", required |-> Nil, attrs |-> Nil,
     header |-> [NewCid |-> "", OldCid |-> "", SyncCmc |-> ""],
     in |-> [Command |-> "", OldCid |-> "", NewCid |-> "", SyncCmc |-> ""],
     wdmp |-> [Command |-> "", OldCid |-> "", NewCid |-> "", SyncCmc |-> ""],
     err |-> Nil]

\* the hub after NewManager: no device, no Route call
HubInit ==
    /\ registry = {}
    /\ devId = [d \in Dev |-> NoID]
    /\ cpc = [d \in Dev |-> "new"]
    /\ connErr = [d \in Dev |-> Nil]
    /\ conn = [d \in Dev |-> "none"]
    /\ closeCalls = [d \in Dev |-> 0]
    /\ shutdown = [d \in Dev |-> FALSE]
    /\ messages = [d \in Dev |-> <<>>]
    /\ closeOnce = [d \in Dev |-> "new"]
    /\ tdBy = [d \in Dev |-> "none"]
    /\ rp = [d \in Dev |-> [pc |-> "idle", frame |-> NoFrame]]
    /\ wp = [d \in Dev |-> [pc |-> "idle", envelope |-> NoEnv, writeError |-> Nil]]
    /\ frames = [d \in Dev |-> 0]
    /\ events = [d \in Dev |-> <<>>]
    /\ transactions = [d \in Dev |-> {}]
    /\ caller = [c \in Callers |->
                   [pc |-> "idle", dest |-> NoID, dev |-> 0, request |-> NoEnv,
                    complete |-> "open", response |-> NoResponse, result |-> Nil]]
    /\ wire = [d \in Dev |-> <<>>]
    /\ acceptLog = [d \in Dev |-> <<>>]
    /\ auth = [d \in Dev |-> "none"]
    /\ writing = [d \in Dev |-> {}]

\* the Options of the runs: the device limit and the size of a device's queue
DefaultOptions == [maxDevices |-> Limit, deviceMessageQueueSize |-> QueueSize]

\* the return values of Disconnect and DisconnectIf are not looked at
Unobserved == [op |-> "unobserved", arg |-> {}, ok |-> FALSE, count |-> 0]

\* no Disconnect or DisconnectIf has returned yet
NoReturn == [op |-> "none", arg |-> {}, ok |-> FALSE, count |-> 0]

\* the goroutines that dispatch events of a device
Pumps == {"read", "write"}

\* manager.dispatch before any call: no listener configured, no event
\* dispatched, both pumps outside of dispatch
NoDispatch ==
    [listeners |-> <<>>, calls |-> [e \in 1..MaxEvents |-> <<>>], events |-> 0,
     run |-> [p \in Pumps |-> [pc |-> "idle", i |-> 0, event |-> 0]]]

Init ==
    /\ HubInit
    /\ options = DefaultOptions
    /\ ret = Unobserved
    /\ rt = NoCall
    /\ lst = NoDispatch
    /\ set = NoSet

\* ------------------------------------------------------------- Connect
\* how far Connect gets: the three failures before registration, or add
Outcomes == {"MissingDeviceName", "UpgradeFailed", "PingerFailed", "add"}

\* the identifiers a new connection may present: one seen before, or the
\* first one not seen yet (identifiers are interchangeable)
NextIDs ==
    {IDSeq[i] : i \in {j \in 1..Len(IDSeq) :
                         \A k \in 1..(j - 1) : \E e \in Dev : devId[e] = IDSeq[k]}}

\* the error Connect ends with: that of the step that failed, or add's
connectError(outcome, id) ==
    IF outcome = "add" THEN addError(registry, devId, id) ELSE outcome

\* the effect of Connect up to its return or to the connect event: reg is
\* the registry add leaves, err the error Connect returns, closes says
\* whether Connect closes the websocket it upgraded.
connectStep(d, id, outcome, reg, err, closes) ==
    /\ cpc[d] = "new"
    /\ \A e \in Dev : e < d => cpc[e] # "new"
    /\ devId' = [devId EXCEPT ![d] = IF outcome = "MissingDeviceName" THEN NoID ELSE id]
    /\ connErr' = [connErr EXCEPT ![d] = err]
    /\ cpc' = [cpc EXCEPT ![d] = IF err = Nil THEN "registered" ELSE "failed"]
    /\ registry' = reg
    /\ conn' = [conn EXCEPT ![d] =
                  IF outcome \in {"MissingDeviceName", "UpgradeFailed"} THEN "none"
                  ELSE IF closes THEN "closed" ELSE "open"]
    /\ closeCalls' = [closeCalls EXCEPT ![d] = IF closes THEN @ + 1 ELSE @]
    /\ UNCHANGED <<set, writing, lst, options, ret, auth, rt, wire, acceptLog, shutdown, messages, closeOnce, tdBy, rp, wp, frames,
                   events, transactions, caller>>

\* the registry after add was called with the device (or was not reached)
afterAdd(d, id, outcome) ==
    IF connectError(outcome, id) = Nil THEN registry \cup {d} ELSE registry

\* a Connect that goes on as if add had succeeded
ConnectIgnoresAddError(d, id, outcome) ==
    connectStep(d, id, outcome, afterAdd(d, id, outcome),
                IF outcome = "add" THEN Nil ELSE outcome,
                outcome = "PingerFailed")

\* a Connect that returns add's error without closing the websocket
ConnectLeavesOpen(d, id, outcome) ==
    connectStep(d, id, outcome, afterAdd(d, id, outcome),
                connectError(outcome, id),
                outcome = "PingerFailed")

\* a Connect that registers the device before it builds the pinger
ConnectRegistersEarly(d, id, outcome) ==
    connectStep(d, id, outcome,
                IF outcome = "PingerFailed" /\ addError(registry, devId, id) = Nil
                THEN registry \cup {d} ELSE afterAdd(d, id, outcome),
                connectError(outcome, id),
                outcome \in {"PingerFailed", "add"} /\ connectError(outcome, id) # Nil)

\* manager.Connect up to and including m.devices.add(d): the device identity
\* may be missing from the request context, the upgrade may fail, the pinger
\* may fail to be built (the websocket is closed), registration may fail (the
\* websocket is closed); otherwise the device is registered.
Connect(d, id, outcome) ==
    connectStep(d, id, outcome, afterAdd(d, id, outcome),
                connectError(outcome, id),
                outcome \in {"PingerFailed", "add"} /\ connectError(outcome, id) # Nil)

\* a Connect that starts the pumps without dispatching the connect event
ConnectStartNoEvent(d) ==
    /\ cpc[d] = "registered"
    /\ cpc' = [cpc EXCEPT ![d] = "running"]
    /\ rp' = [rp EXCEPT ![d].pc = "read"]
    /\ wp' = [wp EXCEPT ![d].pc = "select"]
    /\ auth' = [auth EXCEPT ![d] = "armed"]
    /\ UNCHANGED <<set, writing, lst, options, ret, rt, wire, acceptLog, registry, devId, connErr, conn, closeCalls, shutdown,
                   messages, closeOnce, tdBy, frames, events, transactions, caller>>

\* manager.Connect after a successful add: the connect event is dispatched
\* and then the two pumps are started with one new sync.Once; the write pump
\* arms the timer of the auth status message as it starts.
ConnectStart(d) ==
    /\ cpc[d] = "registered"
    /\ cpc' = [cpc EXCEPT ![d] = "running"]
    /\ events' = dispatch(events, d, Event("Connect", 0, "", "", Nil))
    /\ rp' = [rp EXCEPT ![d].pc = "read"]
    /\ wp' = [wp EXCEPT ![d].pc = "select"]
    /\ auth' = [auth EXCEPT ![d] = "armed"]
    /\ UNCHANGED <<set, writing, lst, options, ret, rt, wire, acceptLog, registry, devId, connErr, conn, closeCalls, shutdown, messages,
                   closeOnce, tdBy, frames, transactions, caller>>

\* the return value of a call, where the run looks at return values: what
\* was called with which argument, the boolean or the count it returned
returned(r, op, arg, ok, count) ==
    IF r = Unobserved THEN r
    ELSE [op |-> op, arg |-> arg, ok |-> ok, count |-> count]

\* registry.remove / removeIf under the registry's lock: the devices are
\* taken out, each one's close is requested, and the call returns r.
removeStep(gone, r) ==
    /\ registry' = registry \ gone
    /\ shutdown' = requestClose(shutdown, gone)
    /\ ret' = r
    /\ UNCHANGED <<set, writing, lst, options, auth, rt, wire, acceptLog, devId, cpc, connErr, conn,
                   closeCalls, messages, closeOnce, tdBy, rp, wp, frames, events,
                   transactions, caller>>

\* a Disconnect that reports success whatever remove found
DisconnectAlwaysTrue(id) ==
    LET gone == removed(registry, devId, {id})
    IN  removeStep(gone, returned(ret, "Disconnect", {id}, TRUE, 0))

\* manager.Disconnect: m.devices.remove(id), which requests the close of the
\* device it removes; the result says whether a device was found.
Disconnect(id) ==
    LET gone == removed(registry, devId, {id})
    IN  removeStep(gone, returned(ret, "Disconnect", {id}, gone # {}, 0))

\* a DisconnectIf that removes the devices the filter rejects
DisconnectIfNot(filter) ==
    LET gone == registry \ removed(registry, devId, filter)
    IN  removeStep(gone, returned(ret, "DisconnectIf", filter, FALSE, Cardinality(gone)))

\* manager.DisconnectIf: m.devices.removeIf over the identifiers the filter
\* accepts; the filter is given as the set of identifiers it accepts; the
\* result is the number of devices removed.
DisconnectIf(filter) ==
    LET gone == removed(registry, devId, filter)
    IN  removeStep(gone, returned(ret, "DisconnectIf", filter, FALSE, Cardinality(gone)))

\* ------------------------------------------------- sync.Once and pumpClose
pumpPc(d, p) == IF p = "read" THEN rp[d].pc ELSE wp[d].pc

setPumpPc(d, p, pc) ==
    IF p = "read"
    THEN rp' = [rp EXCEPT ![d].pc = pc] /\ wp' = wp
    ELSE wp' = [wp EXCEPT ![d].pc = pc] /\ rp' = rp

\* where a pump goes on after closeOnce.Do returned
afterOnce(p) == IF p = "read" THEN "done" ELSE "failed"

\* a guard that lets every caller run the function
onceRunsAlways(o) == o \in {"new", "running", "done"}

\* sync.Once.Do: the first caller runs the function
onceRuns(o) == o = "new"

\* a Once whose second caller does not wait for the running function
onceDoNoWait(d, p) ==
    /\ pumpPc(d, p) = "exit"
    /\ \/ /\ onceRuns(closeOnce[d])
          /\ closeOnce' = [closeOnce EXCEPT ![d] = "running"]
          /\ tdBy' = [tdBy EXCEPT ![d] = p]
          /\ setPumpPc(d, p, "tdRemove")
       \/ /\ closeOnce[d] \in {"running", "done"}
          /\ UNCHANGED <<closeOnce, tdBy>>
          /\ setPumpPc(d, p, afterOnce(p))
    /\ UNCHANGED <<set, writing, lst, options, ret, auth, rt, wire, acceptLog, registry, devId, cpc, connErr, conn, closeCalls, shutdown, messages,
                   frames, events, transactions, caller>>

\* closeOnce.Do(func() { m.pumpClose(...) }) in the deferred code of a pump:
\* the first pump to arrive runs pumpClose; a pump arriving while it runs
\* waits until it has finished; a pump arriving afterwards passes.
onceDo(d, p) ==
    /\ pumpPc(d, p) = "exit"
    /\ \/ /\ onceRuns(closeOnce[d])
          /\ closeOnce' = [closeOnce EXCEPT ![d] = "running"]
          /\ tdBy' = [tdBy EXCEPT ![d] = p]
          /\ setPumpPc(d, p, "tdRemove")
       \/ /\ closeOnce[d] = "done"
          /\ UNCHANGED <<closeOnce, tdBy>>
          /\ setPumpPc(d, p, afterOnce(p))
    /\ UNCHANGED <<set, writing, lst, options, ret, auth, rt, wire, acceptLog, registry, devId, cpc, connErr, conn, closeCalls, shutdown, messages,
                   frames, events, transactions, caller>>

\* a pumpClose that leaves the registry alone
pumpCloseSkipsRemove(d, p) ==
    /\ pumpPc(d, p) = "tdRemove"
    /\ setPumpPc(d, p, "tdClose")
    /\ UNCHANGED <<set, writing, lst, options, ret, auth, rt, wire, acceptLog, registry, shutdown, devId, cpc, connErr, conn, closeCalls, messages, closeOnce, tdBy,
                   frames, events, transactions, caller>>

\* pumpClose, first step: m.devices.remove(d.id)
pumpCloseRemove(d, p) ==
    /\ pumpPc(d, p) = "tdRemove"
    /\ LET gone == removed(registry, devId, {devId[d]})
       IN  /\ registry' = registry \ gone
           /\ shutdown' = requestClose(shutdown, gone)
    /\ setPumpPc(d, p, "tdClose")
    /\ UNCHANGED <<set, writing, lst, options, ret, auth, rt, wire, acceptLog, devId, cpc, connErr, conn, closeCalls, messages, closeOnce, tdBy,
                   frames, events, transactions, caller>>

\* a pumpClose that leaves the websocket open
pumpCloseKeepsOpen(d, p) ==
    /\ pumpPc(d, p) = "tdClose"
    /\ setPumpPc(d, p, "tdEvent")
    /\ UNCHANGED <<set, writing, lst, options, ret, auth, rt, wire, acceptLog, registry, devId, cpc, connErr, conn, closeCalls, shutdown, messages, closeOnce, tdBy,
                   frames, events, transactions, caller>>

\* pumpClose, second step: c.Close()
pumpCloseClose(d, p) ==
    /\ pumpPc(d, p) = "tdClose"
    /\ conn' = [conn EXCEPT ![d] = "closed"]
    /\ closeCalls' = [closeCalls EXCEPT ![d] = @ + 1]
    /\ setPumpPc(d, p, "tdEvent")
    /\ UNCHANGED <<set, writing, lst, options, ret, auth, rt, wire, acceptLog, registry, devId, cpc, connErr, shutdown, messages, closeOnce, tdBy,
                   frames, events, transactions, caller>>

\* pumpClose, last step: the disconnect event (Type and Device only); the
\* sync.Once is done when pumpClose returns.
pumpCloseEvent(d, p) ==
    /\ pumpPc(d, p) = "tdEvent"
    /\ events' = dispatch(events, d, Event("Disconnect", 0, "", "", Nil))
    /\ closeOnce' = [closeOnce EXCEPT ![d] = "done"]
    /\ setPumpPc(d, p, afterOnce(p))
    /\ UNCHANGED <<set, writing, lst, options, ret, auth, rt, wire, acceptLog, registry, devId, cpc, connErr, conn, closeCalls, shutdown, messages,
                   tdBy, frames, transactions, caller>>

\* ------------------------------------------------------------ read pump
\* message.IsTransactionPart(): the message carries a correlation key
IsTransactionPart(f) == f.key # 0

\* d.transactions.Complete(key, response): fails unless the key is open
completeError(open, key) == IF key \in open THEN Nil ELSE "NoSuchTransaction"

\* a read pump that marks broken transactions only
readEventTypeNoComplete(f, err) ==
    IF err # Nil THEN "TransactionBroken" ELSE "MessageReceived"

\* the type of the one event the read pump dispatches for a decoded message
readEventType(f, err) ==
    IF IsTransactionPart(f)
    THEN (IF err # Nil THEN "TransactionBroken" ELSE "TransactionComplete")
    ELSE "MessageReceived"

\* r.ReadMessage() returns an error: the loop ends and the deferred
\* closeOnce.Do comes next.
readFail(d) ==
    /\ rp[d].pc = "read"
    /\ rp' = [rp EXCEPT ![d].pc = "exit"]
    /\ UNCHANGED <<set, writing, lst, options, ret, auth, rt, wire, acceptLog, registry, devId, cpc, connErr, conn, closeCalls, shutdown, messages,
                   closeOnce, tdBy, wp, frames, events, transactions, caller>>

\* a read pump that handles every frame, decoded or not
afterFrameHandlesAll(f) == [pc |-> "handle", frame |-> f]

\* where the read pump goes with the frame it read: a non-binary frame and a
\* frame that does not decode are skipped, a decoded message is handled.
afterFrame(f) ==
    IF f.kind = "wrp" THEN [pc |-> "handle", frame |-> f]
    ELSE [pc |-> "read", frame |-> NoFrame]

\* the n-th frame of the inbound stream
stamp(f, n) == [kind |-> f.kind, key |-> f.key, n |-> n]

\* the raw bytes of a frame (data), as ReadMessage returned them
data(f) == <<f.kind, f.key, f.n>>

\* r.ReadMessage() returns a frame, and the checks on it.
readFrame(d) ==
    /\ rp[d].pc = "read"
    /\ conn[d] = "open"
    /\ frames[d] < MaxFrames
    /\ frames' = [frames EXCEPT ![d] = @ + 1]
    /\ \E f \in Frames : rp' = [rp EXCEPT ![d] = afterFrame(stamp(f, frames[d] + 1))]
    /\ UNCHANGED <<set, writing, lst, options, ret, auth, rt, wire, acceptLog, registry, devId, cpc, connErr, conn, closeCalls, shutdown, messages,
                   closeOnce, tdBy, wp, events, transactions, caller>>

\* a response that carries another message than the one just decoded
responseStale(d, f) ==
    [Device |-> d, Message |-> NoFrame, Format |-> "Msgpack", Contents |-> data(f)]

\* the Response the read pump hands to transactions.Complete
response(d, f) ==
    [Device |-> d, Message |-> f, Format |-> "Msgpack", Contents |-> data(f)]

\* Route caller c waits on device d for the reply under key
waits(c, d, key) ==
    /\ caller[c].pc = "wait"
    /\ caller[c].dev = d
    /\ caller[c].request.Key = key

\* d.transactions.Complete(key, response) on an open key: the response is
\* handed to the caller waiting for it
completed(cs, d, key, resp) ==
    [c \in Callers |-> IF waits(c, d, key) THEN [cs[c] EXCEPT !.response = resp] ELSE cs[c]]

\* an event that leaves out the error of Complete
readEventNoError(f, err) ==
    Event(readEventType(f, err), f, "Msgpack", data(f), Nil)

\* the one event the read pump dispatches for a decoded message
readEvent(f, err) ==
    Event(readEventType(f, err), f, "Msgpack", data(f), err)

\* a read pump that returns when Complete fails
afterHandleStopsOnBroken(err) == IF err # Nil THEN "exit" ELSE "read"

\* after the dispatch the loop reads the next frame, whatever Complete said
afterHandle(err) == "read"

\* the rest of the loop body for a decoded message: a transaction part
\* completes its transaction, then one event is dispatched.
readHandle(d) ==
    /\ rp[d].pc = "handle"
    /\ LET f == rp[d].frame
           err == IF IsTransactionPart(f) THEN completeError(transactions[d], f.key) ELSE Nil
       IN  /\ transactions' = [transactions EXCEPT ![d] =
                                 IF IsTransactionPart(f) THEN @ \ {f.key} ELSE @]
           /\ caller' = IF IsTransactionPart(f) /\ err = Nil
                         THEN completed(caller, d, f.key, response(d, f))
                         ELSE caller
           /\ events' = dispatch(events, d, readEvent(f, err))
           /\ rp' = [rp EXCEPT ![d] = [pc |-> afterHandle(err), frame |-> NoFrame]]
    /\ UNCHANGED <<set, writing, lst, options, ret, auth, rt, wire, acceptLog, registry, devId, cpc, connErr, conn, closeCalls, shutdown, messages,
                   closeOnce, tdBy, wp, frames>>

\* ----------------------------------------------------------- write pump
\* case <-d.shutdown: writeError = w.Close(); return
writeShutdown(d) ==
    /\ wp[d].pc = "select"
    /\ shutdown[d]
    /\ \E err \in {Nil, "close"} :
         wp' = [wp EXCEPT ![d] = [pc |-> "exit", envelope |-> NoEnv, writeError |-> err]]
    /\ conn' = [conn EXCEPT ![d] = "closed"]
    /\ closeCalls' = [closeCalls EXCEPT ![d] = @ + 1]
    /\ UNCHANGED <<set, writing, lst, options, ret, auth, rt, wire, acceptLog, registry, devId, cpc, connErr, shutdown, messages, closeOnce, tdBy,
                   rp, frames, events, transactions, caller>>

\* a test that takes whatever raw bytes the request carries
needsEncodeWithoutContents(env) == env.Contents = ""

\* the raw bytes are written as they are when the request is in the wire
\* format and has contents; otherwise the message is encoded first
needsEncode(env) == ~(env.Format = "Msgpack" /\ env.Contents # "")

\* the errors encoding and writing the frame can end with
writeOutcomes(env, c) ==
    (IF needsEncode(env) THEN {"encode"} ELSE {})
        \cup {"write"}
        \cup (IF c = "open" THEN {Nil} ELSE {})

\* a receive that takes the envelope queued last
receiveNewest(q) == [envelope |-> q[Len(q)], rest |-> SubSeq(q, 1, Len(q) - 1)]

\* <-d.messages: a channel hands out the envelope queued first
receive(q) == [envelope |-> Head(q), rest |-> Tail(q)]

\* the bytes of a frame: bytes handed over by a caller, or the output of the
\* encoder for a message
contents(c) == [contents |-> c, encoded |-> 0]
Encode(m) == [contents |-> "", encoded |-> m]

\* frameContents: the request's raw bytes, or the encoding of its message
frameContents(env) ==
    IF needsEncode(env) THEN Encode(env.Message) ELSE contents(env.Contents)

\* w.WriteMessage(websocket.BinaryMessage, frameContents) when it succeeds
written(w, env, err) ==
    IF err = Nil THEN Append(w, [caller |-> env.caller, bytes |-> frameContents(env)]) ELSE w

\* case envelope = <-d.messages: up to and including w.WriteMessage
writeEnvelope(d) ==
    /\ wp[d].pc = "select"
    /\ messages[d] # <<>>
    /\ messages' = [messages EXCEPT ![d] = receive(@).rest]
    /\ \E err \in writeOutcomes(receive(messages[d]).envelope, conn[d]) :
         /\ wp' = [wp EXCEPT ![d] =
                     [pc |-> "dispatch", envelope |-> receive(messages[d]).envelope,
                      writeError |-> err]]
         /\ wire' = [wire EXCEPT ![d] = written(@, receive(messages[d]).envelope, err)]
    /\ UNCHANGED <<set, writing, lst, options, ret, auth, rt, acceptLog, registry, devId, cpc, connErr, conn, closeCalls, shutdown, closeOnce,
                   tdBy, rp, frames, events, transactions, caller>>

\* the event for an envelope, carrying the request's three fields
envelopeEvent(type, env, err) == Event(type, env.Message, env.Format, env.Contents, err)

\* the event dispatched in the loop for the envelope just handled
loopEvent(env, err) ==
    envelopeEvent(IF err # Nil THEN "MessageFailed" ELSE "MessageSent", env, err)

\* a loop that goes on to the next envelope after a failure
writeDispatchGoesOn(d) ==
    /\ wp[d].pc = "dispatch"
    /\ LET env == wp[d].envelope
           err == wp[d].writeError
       IN  /\ caller' = [caller EXCEPT ![env.caller].complete =
                           IF err # Nil THEN "error" ELSE "closed"]
           /\ events' = dispatch(events, d, loopEvent(env, err))
           /\ wp' = [wp EXCEPT ![d] = [pc |-> "select", envelope |-> NoEnv, writeError |-> Nil]]
    /\ UNCHANGED <<set, writing, lst, options, ret, auth, rt, wire, acceptLog, registry, devId, cpc, connErr, conn, closeCalls, shutdown, messages,
                   closeOnce, tdBy, rp, frames, transactions>>

\* case envelope = <-d.messages, after the write: the error goes to
\* envelope.complete, which is closed, and the event is dispatched; the loop
\* goes on only while writeError is nil.
writeDispatch(d) ==
    /\ wp[d].pc = "dispatch"
    /\ LET env == wp[d].envelope
           err == wp[d].writeError
       IN  /\ caller' = [caller EXCEPT ![env.caller].complete =
                           IF err # Nil THEN "error" ELSE "closed"]
           /\ events' = dispatch(events, d, loopEvent(env, err))
           /\ wp' = [wp EXCEPT ![d] =
                       IF err = Nil
                       THEN [pc |-> "select", envelope |-> NoEnv, writeError |-> Nil]
                       ELSE [@ EXCEPT !.pc = "exit"]]
    /\ UNCHANGED <<set, writing, lst, options, ret, auth, rt, wire, acceptLog, registry, devId, cpc, connErr, conn, closeCalls, shutdown, messages,
                   closeOnce, tdBy, rp, frames, transactions>>

\* a write pump that goes on selecting after the pinger failed
writePingIgnoresError(d) ==
    /\ wp[d].pc = "select"
    /\ \E err \in {"ping"} \cup (IF conn[d] = "open" THEN {Nil} ELSE {}) :
         wp' = [wp EXCEPT ![d] =
                  [pc |-> "select", envelope |-> NoEnv, writeError |-> err]]
    /\ UNCHANGED <<set, writing, lst, options, ret, auth, rt, wire, acceptLog, registry, devId, cpc, connErr, conn, closeCalls, shutdown, messages,
                   closeOnce, tdBy, rp, frames, events, transactions, caller>>

\* case <-pingTicker.C: writeError = pinger()
writePing(d) ==
    /\ wp[d].pc = "select"
    /\ \E err \in {"ping"} \cup (IF conn[d] = "open" THEN {Nil} ELSE {}) :
         wp' = [wp EXCEPT ![d] =
                  [pc |-> IF err = Nil THEN "select" ELSE "exit",
                   envelope |-> NoEnv, writeError |-> err]]
    /\ UNCHANGED <<set, writing, lst, options, ret, auth, rt, wire, acceptLog, registry, devId, cpc, connErr, conn, closeCalls, shutdown, messages,
                   closeOnce, tdBy, rp, frames, events, transactions, caller>>

\* the events the deferred code dispatches for the envelope in hand, if any
failedEvents(env, err) ==
    IF env # NoEnv THEN <<envelopeEvent("MessageFailed", env, err)>> ELSE <<>>

\* deferred code after closeOnce.Do: "notify listener of any message that
\* just now failed"
writeFailed(d) ==
    /\ wp[d].pc = "failed"
    /\ events' = [events EXCEPT ![d] = @ \o failedEvents(wp[d].envelope, wp[d].writeError)]
    /\ wp' = [wp EXCEPT ![d].pc = "drain"]
    /\ UNCHANGED <<set, writing, lst, options, ret, auth, rt, wire, acceptLog, registry, devId, cpc, connErr, conn, closeCalls, shutdown, messages,
                   closeOnce, tdBy, rp, frames, transactions, caller>>

\* a drain that reports the envelope without its raw bytes
drainEventNoContents(env, err) == Event("MessageFailed", env.Message, env.Format, "", err)

\* the event the drain dispatches for a queued envelope
drainEvent(env, err) == envelopeEvent("MessageFailed", env, err)

\* deferred code, the drain: one queued envelope is received and reported, or
\* the receive would block and the write pump returns.
writeDrain(d) ==
    /\ wp[d].pc = "drain"
    /\ IF messages[d] # <<>>
       THEN /\ messages' = [messages EXCEPT ![d] = receive(@).rest]
            /\ events' = dispatch(events, d,
                                  drainEvent(receive(messages[d]).envelope, wp[d].writeError))
            /\ UNCHANGED wp
       ELSE /\ wp' = [wp EXCEPT ![d].pc = "done"]
            /\ UNCHANGED <<messages, events>>
    /\ UNCHANGED <<set, writing, lst, options, ret, auth, rt, wire, acceptLog, registry, devId, cpc, connErr, conn, closeCalls, shutdown, closeOnce,
                   tdBy, rp, frames, transactions, caller>>

\* --------------------------------------------------- auth status timer
\* authStatusTimer.Stop() is the second call of the write pump's deferred
\* code: the timer is stopped once the write pump has left its loop
timerStopped(d) == wp[d].pc \notin {"select", "dispatch", "write", "ping"}

\* the authDelay passes before the timer is stopped: the runtime starts the
\* function of time.AfterFunc in a goroutine of its own; Stop does not wait
\* for a function that has been started.
authFire(d) ==
    /\ auth[d] = "armed"
    /\ ~timerStopped(d)
    /\ auth' = [auth EXCEPT ![d] = "fired"]
    /\ UNCHANGED <<set, writing, lst, options, ret, rt, wire, acceptLog, registry, devId, cpc, connErr, conn, closeCalls, shutdown, messages,
                   closeOnce, tdBy, rp, wp, frames, events, transactions, caller>>

\* what the call of w.WritePreparedMessage meets: an open websocket takes
\* the message, a closed one is written to after its Close
authWritten(c) == IF c = "open" THEN "written" ELSE "late"

\* the function of the timer: w.WritePreparedMessage(authStatus)
authWrite(d) ==
    /\ auth[d] = "fired"
    /\ auth' = [auth EXCEPT ![d] = authWritten(conn[d])]
    /\ wire' = [wire EXCEPT ![d] =
                  IF conn[d] = "open"
                  THEN Append(@, [caller |-> 0, bytes |-> contents("authStatus")]) ELSE @]
    /\ UNCHANGED <<set, writing, lst, options, ret, rt, acceptLog, registry, devId, cpc, connErr, conn, closeCalls, shutdown, messages,
                   closeOnce, tdBy, rp, wp, frames, events, transactions, caller>>

\* ------------------------------------------- writes that take their time
\* The steps below are the write pump's envelope case, its ping case and the
\* function of the auth status timer with the call on the websocket split in
\* two: the goroutine enters the call, and the call returns.

\* case envelope = <-d.messages, up to the call of w.WriteMessage: a failed
\* Encode skips the call
writeMessageCall(d) ==
    /\ wp[d].pc = "select"
    /\ messages[d] # <<>>
    /\ messages' = [messages EXCEPT ![d] = receive(@).rest]
    /\ LET env == receive(messages[d]).envelope
       IN  \/ /\ needsEncode(env)
              /\ wp' = [wp EXCEPT ![d] =
                          [pc |-> "dispatch", envelope |-> env, writeError |-> "encode"]]
              /\ UNCHANGED writing
           \/ /\ wp' = [wp EXCEPT ![d] =
                          [pc |-> "write", envelope |-> env, writeError |-> Nil]]
              /\ writing' = [writing EXCEPT ![d] = @ \cup {"data"}]
    /\ UNCHANGED <<set, lst, options, ret, auth, rt, wire, acceptLog, registry, devId, cpc, connErr, conn, closeCalls,
                   shutdown, closeOnce, tdBy, rp, frames, events, transactions, caller>>

\* w.WriteMessage returns
writeMessageReturn(d) ==
    /\ wp[d].pc = "write"
    /\ \E err \in {"write"} \cup (IF conn[d] = "open" THEN {Nil} ELSE {}) :
         /\ wp' = [wp EXCEPT ![d].pc = "dispatch", ![d].writeError = err]
         /\ wire' = [wire EXCEPT ![d] = written(@, wp[d].envelope, err)]
    /\ writing' = [writing EXCEPT ![d] = @ \ {"data"}]
    /\ UNCHANGED <<set, lst, options, ret, auth, rt, acceptLog, registry, devId, cpc, connErr, conn, closeCalls,
                   shutdown, messages, closeOnce, tdBy, rp, frames, events, transactions, caller>>

\* case <-pingTicker.C: pinger() is called
pingCall(d) ==
    /\ wp[d].pc = "select"
    /\ wp' = [wp EXCEPT ![d] = [pc |-> "ping", envelope |-> NoEnv, writeError |-> Nil]]
    /\ writing' = [writing EXCEPT ![d] = @ \cup {"ping"}]
    /\ UNCHANGED <<set, lst, options, ret, auth, rt, wire, acceptLog, registry, devId, cpc, connErr, conn, closeCalls,
                   shutdown, messages, closeOnce, tdBy, rp, frames, events, transactions, caller>>

\* writeError = pinger(): the pinger returns
pingReturn(d) ==
    /\ wp[d].pc = "ping"
    /\ \E err \in {"ping"} \cup (IF conn[d] = "open" THEN {Nil} ELSE {}) :
         wp' = [wp EXCEPT ![d] =
                  [pc |-> IF err = Nil THEN "select" ELSE "exit",
                   envelope |-> NoEnv, writeError |-> err]]
    /\ writing' = [writing EXCEPT ![d] = @ \ {"ping"}]
    /\ UNCHANGED <<set, lst, options, ret, auth, rt, wire, acceptLog, registry, devId, cpc, connErr, conn, closeCalls,
                   shutdown, messages, closeOnce, tdBy, rp, frames, events, transactions, caller>>

\* the function of the timer calls w.WritePreparedMessage(authStatus)
authWriteCall(d) ==
    /\ auth[d] = "fired"
    /\ auth' = [auth EXCEPT ![d] = "writing"]
    /\ writing' = [writing EXCEPT ![d] = @ \cup {"auth"}]
    /\ UNCHANGED <<set, lst, options, ret, rt, wire, acceptLog, registry, devId, cpc, connErr, conn, closeCalls,
                   shutdown, messages, closeOnce, tdBy, rp, wp, frames, events, transactions, caller>>

\* w.WritePreparedMessage returns
authWriteReturn(d) ==
    /\ auth[d] = "writing"
    /\ auth' = [auth EXCEPT ![d] = authWritten(conn[d])]
    /\ wire' = [wire EXCEPT ![d] =
                  IF conn[d] = "open"
                  THEN Append(@, [caller |-> 0, bytes |-> contents("authStatus")]) ELSE @]
    /\ writing' = [writing EXCEPT ![d] = @ \ {"auth"}]
    /\ UNCHANGED <<set, lst, options, ret, rt, acceptLog, registry, devId, cpc, connErr, conn, closeCalls,
                   shutdown, messages, closeOnce, tdBy, rp, wp, frames, events, transactions, caller>>

\* ---------------------------------------------------------------- Route
\* a Route that looks the destination up among the open connections
routeGetByConnection(c, id) ==
    /\ caller[c].pc = "idle"
    /\ \A b \in Callers : b < c => caller[b].pc # "idle"
    /\ LET found == get({e \in Dev : conn[e] = "open"}, devId, id)
       IN  caller' = [caller EXCEPT ![c] =
                        IF found = {}
                        THEN [@ EXCEPT !.pc = "done", !.dest = id, !.result = "DeviceNotFound"]
                        ELSE [@ EXCEPT !.pc = "send", !.dest = id,
                                       !.dev = CHOOSE e \in found : TRUE]]
    /\ UNCHANGED <<set, writing, lst, options, ret, auth, rt, wire, acceptLog, registry, devId, cpc, connErr, conn, closeCalls,
                   shutdown, messages, closeOnce, tdBy, rp, wp, frames, events, transactions>>

\* manager.Route: the destination is looked up in the registry; an unknown
\* destination is DeviceNotFound.
routeGet(c, id) ==
    /\ caller[c].pc = "idle"
    /\ \A b \in Callers : b < c => caller[b].pc # "idle"
    /\ LET found == get(registry, devId, id)
       IN  caller' = [caller EXCEPT ![c] =
                        IF found = {}
                        THEN [@ EXCEPT !.pc = "done", !.dest = id, !.result = "DeviceNotFound"]
                        ELSE [@ EXCEPT !.pc = "send", !.dest = id,
                                       !.dev = CHOOSE e \in found : TRUE]]
    /\ UNCHANGED <<set, writing, lst, options, ret, auth, rt, wire, acceptLog, registry, devId, cpc, connErr, conn, closeCalls, shutdown, messages,
                   closeOnce, tdBy, rp, wp, frames, events, transactions>>

\* a Send that waits for a free slot of the queue
routeSendBlocks(c, shape) ==
    /\ caller[c].pc = "send"
    /\ LET d == caller[c].dev
           env == [caller |-> c, Message |-> c, Format |-> shape.Format,
                   Contents |-> shape.Contents, Key |-> shape.Key]
       IN  /\ Len(messages[d]) < options.deviceMessageQueueSize
           /\ messages' = [messages EXCEPT ![d] = Append(@, env)]
           /\ acceptLog' = [acceptLog EXCEPT ![d] = Append(@, c)]
           /\ transactions' = [transactions EXCEPT ![d] =
                                 IF shape.Key # 0 THEN @ \cup {shape.Key} ELSE @]
           /\ caller' = [caller EXCEPT ![c] = [@ EXCEPT !.pc = "wait", !.request = env]]
    /\ UNCHANGED <<set, writing, lst, options, ret, auth, rt, wire, registry, devId, cpc, connErr, conn, closeCalls, shutdown, closeOnce,
                   tdBy, rp, wp, frames, events>>

\* device.Send: the envelope is put on the device's queue, or the call fails
\* at once when the queue is full; a request that expects a reply opens a
\* transaction under its correlation key.
routeSend(c, shape) ==
    /\ caller[c].pc = "send"
    /\ LET d == caller[c].dev
           env == [caller |-> c, Message |-> c, Format |-> shape.Format,
                   Contents |-> shape.Contents, Key |-> shape.Key]
       IN  IF Len(messages[d]) < options.deviceMessageQueueSize
           THEN /\ messages' = [messages EXCEPT ![d] = Append(@, env)]
                /\ acceptLog' = [acceptLog EXCEPT ![d] = Append(@, c)]
                /\ transactions' = [transactions EXCEPT ![d] =
                                      IF shape.Key # 0 THEN @ \cup {shape.Key} ELSE @]
                /\ caller' = [caller EXCEPT ![c] = [@ EXCEPT !.pc = "wait", !.request = env]]
           ELSE /\ caller' = [caller EXCEPT ![c] = [@ EXCEPT !.pc = "done", !.result = "QueueFull"]]
                /\ UNCHANGED <<messages, transactions, acceptLog>>
    /\ UNCHANGED <<set, writing, lst, options, ret, auth, rt, wire, registry, devId, cpc, connErr, conn, closeCalls, shutdown, closeOnce,
                   tdBy, rp, wp, frames, events>>

\* the ways a waiting device.Send can end: with the reply, with the outcome
\* of the write (a request that expects no reply), with the write error, or
\* with the expiry of the caller's deadline
returns(c) ==
    (IF caller[c].response # NoResponse THEN {"Response"} ELSE {})
        \cup (IF caller[c].request.Key = 0 /\ caller[c].complete = "closed" THEN {"Sent"} ELSE {})
        \cup (IF caller[c].complete = "error" THEN {"WriteError"} ELSE {})
        \cup {"Timeout"}

\* device.Send returns and Route with it; an expired deadline abandons the
\* transaction (it is removed from the tracker).
routeReturn(c) ==
    /\ caller[c].pc = "wait"
    /\ \E r \in returns(c) :
         /\ caller' = [caller EXCEPT ![c] = [@ EXCEPT !.pc = "done", !.result = r]]
         /\ transactions' = [transactions EXCEPT ![caller[c].dev] =
                               IF r = "Timeout" THEN @ \ {caller[c].request.Key} ELSE @]
    /\ UNCHANGED <<set, writing, lst, options, ret, auth, rt, wire, acceptLog, registry, devId, cpc, connErr, conn, closeCalls,
                   shutdown, messages, closeOnce, tdBy, rp, wp, frames, events>>

\* ------------------------------------------------------------- dispatch
\* the listeners a manager can be built with: o.listeners(), any list of
\* listeners
ListenerLists ==
    UNION {[1..n -> 1..MaxListeners] : n \in 0..MaxListeners}

\* a range that visits the listeners from the last to the first
rangeReversed(ls, i) == ls[Len(ls) - i]

\* for _, listener := range m.listeners: the listener of iteration i
range(ls, i) == ls[i + 1]

\* for _, listener := range m.listeners: the loop is over after Len(ls)
\* iterations
rangeDone(ls, i) == i >= Len(ls)

\* a pump calls m.dispatch(e) with a new event
dispatchCall(p) ==
    /\ lst.run[p].pc = "idle"
    /\ lst.events < MaxEvents
    /\ lst' = [lst EXCEPT !.events = @ + 1,
                          !.run[p] = [pc |-> "range", i |-> 0, event |-> lst.events + 1]]
    /\ UNCHANGED <<hubVars, rt>>

\* listener(e): the pump's goroutine enters the listener
listenerCall(p) ==
    /\ lst.run[p].pc = "range"
    /\ ~rangeDone(lst.listeners, lst.run[p].i)
    /\ lst' = [lst EXCEPT
                 !.calls[lst.run[p].event] =
                     Append(@, [op |-> "call",
                                listener |-> range(lst.listeners, lst.run[p].i)]),
                 !.run[p].pc = "listener"]
    /\ UNCHANGED <<hubVars, rt>>

\* listener(e) returns and the loop goes to its next iteration
listenerReturn(p) ==
    /\ lst.run[p].pc = "listener"
    /\ lst' = [lst EXCEPT
                 !.calls[lst.run[p].event] =
                     Append(@, [op |-> "return",
                                listener |-> range(lst.listeners, lst.run[p].i)]),
                 !.run[p].pc = "range",
                 !.run[p].i = @ + 1]
    /\ UNCHANGED <<hubVars, rt>>

\* the loop is over: m.dispatch returns and the pump continues
dispatchReturn(p) ==
    /\ lst.run[p].pc = "range"
    /\ rangeDone(lst.listeners, lst.run[p].i)
    /\ lst' = [lst EXCEPT !.run[p] = [pc |-> "idle", i |-> 0, event |-> 0]]
    /\ UNCHANGED <<hubVars, rt>>

\* ------------------------------------------------- retry transactor
\* the errors the wrapped function returns: none, an error whose Temporary()
\* is true, an error whose Temporary() is false, an error without Temporary()
Errs == {Nil, "temporary", "permanent", "plain"}

\* the predicates a transactor is built with: unset (the default), or one
\* that retries every error
Predicates == {"default", "always"}

\* err.(temporaryError): the error exposes Temporary() bool
hasTemporary(err) == err \in {"temporary", "permanent"}

\* temp.Temporary()
Temporary(err) == err = "temporary"

\* a predicate that retries whatever exposes Temporary()
ShouldRetryIfExposed(err) == hasTemporary(err)

\* DefaultShouldRetry
DefaultShouldRetry(err) == IF hasTemporary(err) THEN Temporary(err) ELSE FALSE

\* o.ShouldRetry(err)
ShouldRetry(pred, err) == IF pred = "default" THEN DefaultShouldRetry(err) ELSE TRUE

\* a loop bound that forgets the first attempt
attemptsNoFirst(retries) == retries

\* attempts := o.Retries + 1
attempts(retries) == retries + 1

\* a test that decorates a transactor configured with no retry
undecoratedBelowZero(retries) == retries < 0

\* if o.Retries < 1 { return next }
undecorated(retries) == retries < 1

\* RetryTransactor(o, next): with o.Retries < 1 next itself is returned,
\* otherwise the retrying function; the call of the result begins.
RetryTransactor(retries, pred) ==
    /\ rt.pc = "none"
    /\ rt' = [rt EXCEPT !.pc = IF undecorated(retries) THEN "next" ELSE "loop",
                        !.Retries = retries, !.ShouldRetry = pred]
    /\ UNCHANGED <<hubVars, lst>>

\* the undecorated function is called: one invocation, its result returned
plainCall(err) ==
    /\ rt.pc = "next"
    /\ rt' = [rt EXCEPT !.pc = "returned",
                        !.invoked = Append(@, [response |-> Len(@) + 1, err |-> err]),
                        !.response = Len(rt.invoked) + 1, !.err = err]
    /\ UNCHANGED <<hubVars, lst>>

\* one iteration of the loop: next(request) is invoked; a retryable error
\* counts a retry and continues (the loop ends when i reaches attempts),
\* anything else breaks; after the loop response and err are returned.
retryAttempt(err) ==
    /\ rt.pc = "loop"
    /\ LET retry == err # Nil /\ ShouldRetry(rt.ShouldRetry, err)
       IN  rt' = [rt EXCEPT
                    !.invoked = Append(@, [response |-> Len(@) + 1, err |-> err]),
                    !.response = Len(rt.invoked) + 1,
                    !.err = err,
                    !.Counter = IF retry THEN @ + 1 ELSE @,
                    !.i = IF retry THEN @ + 1 ELSE @,
                    !.pc = IF retry /\ rt.i + 1 < attempts(rt.Retries)
                           THEN "loop" ELSE "returned"]
    /\ UNCHANGED <<hubVars, lst>>

\* ------------------------------------------------ ValidateAndDeduceSET
\* what validation.Validate(wdmp.Parameters, validation.Required) returns:
\* nil, the error of an empty list, or the errors of single parameters
RequiredErrs ==
    {Nil, "cannot be blank",
     "0: (name: cannot be blank.).",
     "0: (value: cannot be blank.).",
     "0: (dataType: cannot be blank; name: cannot be blank.).",
     "1: (dataType: cannot be blank.)."}

\* what ValidateSETAttrParams(wdmp.Parameters) returns
AttrErrs == {Nil, "invalid attr"}

\* strings.Contains(errMsg, sub), for the messages above
Contains(errMsg, sub) ==
    CASE sub = "name" ->
            errMsg \in {"0: (name: cannot be blank.).",
                        "0: (dataType: cannot be blank; name: cannot be blank.)."}
      [] sub = "value" -> errMsg = "0: (value: cannot be blank.)."
      [] sub = "dataType" ->
            errMsg \in {"0: (dataType: cannot be blank; name: cannot be blank.).",
                        "1: (dataType: cannot be blank.)."}
      [] OTHER -> FALSE

\* a test that lets only the error of an empty list through
finalOnlyBlank(errMsg) == errMsg = "cannot be blank"

\* errMsg == "cannot be blank" || strings.Contains(errMsg, "name"): the
\* error is returned as it is, attributes are not looked at
final(errMsg) == errMsg = "cannot be blank" \/ Contains(errMsg, "name")

\* the SET or TEST_SET branch: header.Get(HeaderWPASyncNewCID) decides
deduceSet(header, wdmp) ==
    IF header.NewCid # ""
    THEN [Command |-> "TEST_SET", OldCid |-> header.OldCid, NewCid |-> header.NewCid,
          SyncCmc |-> IF header.SyncCmc # "" THEN header.SyncCmc ELSE wdmp.SyncCmc]
    ELSE [wdmp EXCEPT !.Command = "SET"]

\* the body of ValidateAndDeduceSET: the wdmp and the error it ends with
deduce(header, wdmp, required, attrs) ==
    IF required = Nil
    THEN [wdmp |-> deduceSet(header, wdmp), err |-> Nil]
    ELSE IF ~final(required)
         THEN IF attrs = Nil
              THEN [wdmp |-> [wdmp EXCEPT !.Command = "SET_ATTRS"], err |-> Nil]
              ELSE [wdmp |-> wdmp, err |-> attrs]
         ELSE [wdmp |-> wdmp, err |-> required]

\* cw.ValidateAndDeduceSET(header, wdmp)
ValidateAndDeduceSET ==
    /\ set.pc = "call"
    /\ LET out == deduce(set.header, set.in, set.required, set.attrs)
       IN  set' = [set EXCEPT !.pc = "returned", !.wdmp = out.wdmp, !.err = out.err]
    /\ UNCHANGED <<registry, devId, cpc, connErr, conn, closeCalls, shutdown, messages,
                   closeOnce, tdBy, rp, wp, frames, events, transactions, caller,
                   wire, acceptLog, rt, options, ret, auth, lst, writing>>

\* ------------------------------------------------------- specifications
\* teardown of a device by either pump
Teardown(d) ==
    \/ \E p \in {"read", "write"} : onceDo(d, p)
    \/ \E p \in {"read", "write"} : pumpCloseRemove(d, p)
    \/ \E p \in {"read", "write"} : pumpCloseClose(d, p)
    \/ \E p \in {"read", "write"} : pumpCloseEvent(d, p)

\* the outbound side: one device, its write pump serving the Route callers,
\* a read pump that fails at some moment, explicit disconnection.
Next ==
    \/ \E d \in PumpDev, id \in PumpIDs, o \in Outcomes : Connect(d, id, o)
    \/ \E d \in PumpDev : ConnectStart(d)
    \/ \E id \in PumpIDs : Disconnect(id)
    \/ \E f \in SUBSET PumpIDs : DisconnectIf(f)
    \/ \E d \in PumpDev : Teardown(d)
    \/ \E d \in PumpDev : readFail(d)
    \/ \E d \in PumpDev : writeShutdown(d)
    \/ \E d \in PumpDev : writeEnvelope(d)
    \/ \E d \in PumpDev : writeDispatch(d)
    \/ \E d \in PumpDev : writePing(d)
    \/ \E d \in PumpDev : writeFailed(d)
    \/ \E d \in PumpDev : writeDrain(d)
    \/ \E c \in Callers, id \in PumpIDs : routeGet(c, id)
    \/ \E c \in Callers, shape \in Shapes : routeSend(c, shape)

Spec == Init /\ [][Next]_vars

\* the goroutine of the write pump is scheduled in the end: an envelope
\* written is dispatched, and the deferred code runs to its end; so is the
\* deferred code of the read pump.
FairOut ==
    \A d \in PumpDev :
        /\ WF_vars(Teardown(d))
        /\ WF_vars(writeDispatch(d))
        /\ WF_vars(writeFailed(d))
        /\ WF_vars(writeDrain(d))

SpecOut == Init /\ [][Next]_vars /\ FairOut

\* scheduling of the goroutines of a device: Connect goes on to start the
\* pumps and the code of the pumps outside of the select runs on; a
\* ReadMessage on a closed websocket returns (with an error); and a select
\* with several ready cases picks among them at random, so that the shutdown
\* case is taken in the end although envelopes and ticks keep it company.
FairTerm ==
    \A d \in PumpDev :
        /\ WF_vars(ConnectStart(d))
        /\ WF_vars(Teardown(d))
        /\ WF_vars(writeDispatch(d))
        /\ WF_vars(writeFailed(d))
        /\ WF_vars(writeDrain(d))
        /\ WF_vars(readFail(d) /\ conn[d] = "closed")
        /\ SF_vars(writeShutdown(d))

SpecTerm == Init /\ [][Next]_vars /\ FairTerm

\* the inbound side: one device receiving frames, one Route caller.
NextIn ==
    \/ \E d \in PumpDev, id \in PumpIDs, o \in Outcomes : Connect(d, id, o)
    \/ \E d \in PumpDev : ConnectStart(d)
    \/ \E id \in PumpIDs : Disconnect(id)
    \/ \E d \in PumpDev : Teardown(d)
    \/ \E d \in PumpDev : readFail(d)
    \/ \E d \in PumpDev : readFrame(d)
    \/ \E d \in PumpDev : readHandle(d)
    \/ \E d \in PumpDev : writeShutdown(d)
    \/ \E d \in PumpDev : writeEnvelope(d)
    \/ \E d \in PumpDev : writeDispatch(d)
    \/ \E d \in PumpDev : writePing(d)
    \/ \E d \in PumpDev : writeFailed(d)
    \/ \E d \in PumpDev : writeDrain(d)
    \/ \E c \in InCallers, id \in PumpIDs : routeGet(c, id)
    \/ \E c \in InCallers, shape \in Shapes : routeSend(c, shape)
    \/ \E c \in InCallers : routeReturn(c)

SpecIn == Init /\ [][NextIn]_vars

\* the registry under churn: several devices connecting under a few
\* identifiers, explicit disconnection and pump-triggered teardown.
NextReg ==
    \/ \E d \in Dev, id \in NextIDs : Connect(d, id, "add")
    \/ \E d \in Dev : ConnectStart(d)
    \/ \E id \in IDs : Disconnect(id)
    \/ \E f \in SUBSET RegisteredIDs : DisconnectIf(f)
    \/ \E d \in Dev : Teardown(d)
    \/ \E d \in Dev : readFail(d)
    \/ \E d \in Dev : writeShutdown(d)
    \/ \E d \in Dev : writeFailed(d)
    \/ \E d \in Dev : writeDrain(d)

SpecReg == Init /\ [][NextReg]_vars

\* connection attempts: several upgrade requests, each ending at any of the
\* points where Connect can end, next to devices that connected before and
\* are torn down when their read fails.
NextConn ==
    \/ \E d \in Dev, id \in NextIDs, o \in Outcomes : Connect(d, id, o)
    \/ \E d \in Dev : ConnectStart(d)
    \/ \E d \in Dev : Teardown(d)
    \/ \E d \in Dev : readFail(d)
    \/ \E d \in Dev : writeShutdown(d)
    \/ \E d \in Dev : writeFailed(d)
    \/ \E d \in Dev : writeDrain(d)

SpecConn == Init /\ [][NextConn]_vars

\* the devices and identifiers of the disconnection runs
DiscDev == {1, 2}
DiscIDs == {"a", "b"}

\* a manager whose registry has room for every device, and whose Disconnect
\* and DisconnectIf results are looked at
InitDisc ==
    /\ HubInit
    /\ options = [DefaultOptions EXCEPT !.maxDevices = NumDev]
    /\ ret = NoReturn
    /\ rt = NoCall
    /\ lst = NoDispatch
    /\ set = NoSet

\* explicit disconnection: two devices connect, Disconnect and DisconnectIf
\* are called at any moment, the pumps tear the devices down.
NextDisc ==
    \/ \E d \in DiscDev, id \in NextIDs \cap DiscIDs : Connect(d, id, "add")
    \/ \E d \in DiscDev : ConnectStart(d)
    \/ \E id \in DiscIDs : Disconnect(id)
    \/ \E f \in SUBSET DiscIDs : DisconnectIf(f)
    \/ \E d \in DiscDev : Teardown(d)
    \/ \E d \in DiscDev : readFail(d)
    \/ \E d \in DiscDev : writeShutdown(d)
    \/ \E d \in DiscDev : writeFailed(d)
    \/ \E d \in DiscDev : writeDrain(d)

SpecDisc == InitDisc /\ [][NextDisc]_vars

\* disconnection by identifier and what follows from it
NextDown ==
    \/ \E d \in DiscDev, id \in NextIDs \cap DiscIDs : Connect(d, id, "add")
    \/ \E d \in DiscDev : ConnectStart(d)
    \/ \E id \in DiscIDs : Disconnect(id)
    \/ \E d \in DiscDev : Teardown(d)
    \/ \E d \in DiscDev : readFail(d)
    \/ \E d \in DiscDev : writeShutdown(d)
    \/ \E d \in DiscDev : writeFailed(d)
    \/ \E d \in DiscDev : writeDrain(d)

\* every goroutine that can take a step takes one in the end: Connect goes
\* on to start the pumps, the write pump serves its select, and the deferred
\* code of both pumps runs to its end.
FairDown ==
    \A d \in DiscDev :
        /\ WF_vars(ConnectStart(d))
        /\ WF_vars(Teardown(d))
        /\ WF_vars(writeShutdown(d))
        /\ WF_vars(writeFailed(d))
        /\ WF_vars(writeDrain(d))

SpecDown == InitDisc /\ [][NextDown]_vars /\ FairDown

\* a manager with room for every device and a queue shorter than the number
\* of Route callers
InitFull ==
    /\ HubInit
    /\ options = [maxDevices |-> NumDev, deviceMessageQueueSize |-> MaxCallers - 1]
    /\ ret = Unobserved
    /\ rt = NoCall
    /\ lst = NoDispatch
    /\ set = NoSet

\* Route against short queues: two devices connect, the callers route to
\* either of them, and the write pumps take envelopes when they get to it.
NextFull ==
    \/ \E d \in DiscDev, id \in NextIDs \cap DiscIDs : Connect(d, id, "add")
    \/ \E d \in DiscDev : ConnectStart(d)
    \/ \E d \in DiscDev : writeEnvelope(d)
    \/ \E d \in DiscDev : writeDispatch(d)
    \/ \E c \in Callers, id \in DiscIDs : routeGet(c, id)
    \/ \E c \in Callers, shape \in Shapes : routeSend(c, shape)
    \/ \E c \in Callers : routeReturn(c)

SpecFull == InitFull /\ [][NextFull]_vars

\* the auth status timer next to the teardown: a device connects, the timer
\* fires at any moment before it is stopped, either pump tears the device
\* down.
NextAuth ==
    \/ \E d \in PumpDev, id \in PumpIDs : Connect(d, id, "add")
    \/ \E d \in PumpDev : ConnectStart(d)
    \/ \E id \in PumpIDs : Disconnect(id)
    \/ \E d \in PumpDev : Teardown(d)
    \/ \E d \in PumpDev : readFail(d)
    \/ \E d \in PumpDev : writeShutdown(d)
    \/ \E d \in PumpDev : writePing(d)
    \/ \E d \in PumpDev : writeFailed(d)
    \/ \E d \in PumpDev : writeDrain(d)
    \/ \E d \in PumpDev : authFire(d)
    \/ \E d \in PumpDev : authWrite(d)

SpecAuth == Init /\ [][NextAuth]_vars

\* every request a caller can hand to Route: in the wire format or in another
\* one, with raw bytes or without
AllShapes ==
    [Format : {"Msgpack", "JSON"}, Contents : {"", "raw"}, Key : {0}]

\* the write path: one device, callers routing requests of every shape, the
\* write pump encoding and writing them until a write fails.
NextWrite ==
    \/ \E d \in PumpDev, id \in PumpIDs : Connect(d, id, "add")
    \/ \E d \in PumpDev : ConnectStart(d)
    \/ \E d \in PumpDev : writeEnvelope(d)
    \/ \E d \in PumpDev : writeDispatch(d)
    \/ \E c \in Callers, id \in PumpIDs : routeGet(c, id)
    \/ \E c \in Callers, shape \in AllShapes : routeSend(c, shape)

SpecWrite == Init /\ [][NextWrite]_vars

\* a manager built with any list of listeners
InitListen ==
    /\ HubInit
    /\ options = DefaultOptions
    /\ ret = Unobserved
    /\ rt = NoCall
    /\ \E ls \in ListenerLists : lst = [NoDispatch EXCEPT !.listeners = ls]
    /\ set = NoSet

\* the two pumps of a device dispatching events, each in its own goroutine
NextListen ==
    \/ \E p \in Pumps : dispatchCall(p)
    \/ \E p \in Pumps : listenerCall(p)
    \/ \E p \in Pumps : listenerReturn(p)
    \/ \E p \in Pumps : dispatchReturn(p)

SpecListen == InitListen /\ [][NextListen]_vars

\* the headers of a request: each of the three sync headers set or not
Headers == [NewCid : {"", "n"}, OldCid : {"", "o"}, SyncCmc : {"", "s"}]

\* the SetWDMP handed to ValidateAndDeduceSET: the new one SetFlavorFormat
\* decodes the body into, or one whose Command a caller has set
SetWDMPs == [Command : {"", "GET"}, OldCid : {""}, NewCid : {""}, SyncCmc : {""}]

\* a call of ValidateAndDeduceSET with any headers and any outcome of the
\* two validations
InitSet ==
    /\ HubInit
    /\ options = DefaultOptions
    /\ ret = Unobserved
    /\ rt = NoCall
    /\ lst = NoDispatch
    /\ \E h \in Headers, w \in SetWDMPs, r \in RequiredErrs, a \in AttrErrs :
         set = [NoSet EXCEPT !.pc = "call", !.header = h, !.in = w, !.wdmp = w,
                             !.required = r, !.attrs = a]

NextSet == ValidateAndDeduceSET

SpecSet == InitSet /\ [][NextSet]_vars

\* the writers of one websocket: the write pump writing envelopes and pings,
\* the timer's function writing the auth status message
NextOverlap ==
    \/ \E d \in PumpDev, id \in PumpIDs : Connect(d, id, "add")
    \/ \E d \in PumpDev : ConnectStart(d)
    \/ \E d \in PumpDev : writeMessageCall(d)
    \/ \E d \in PumpDev : writeMessageReturn(d)
    \/ \E d \in PumpDev : writeDispatch(d)
    \/ \E d \in PumpDev : pingCall(d)
    \/ \E d \in PumpDev : pingReturn(d)
    \/ \E d \in PumpDev : authFire(d)
    \/ \E d \in PumpDev : authWriteCall(d)
    \/ \E d \in PumpDev : authWriteReturn(d)
    \/ \E c \in Callers, id \in PumpIDs : routeGet(c, id)
    \/ \E c \in Callers, shape \in Shapes : routeSend(c, shape)

SpecOverlap == Init /\ [][NextOverlap]_vars

\* one call of a retry transactor built with any retry count and predicate,
\* around a function that fails or succeeds at will
NextRetry ==
    \/ \E retries \in (0 - 1)..MaxRetries, pred \in Predicates : RetryTransactor(retries, pred)
    \/ \E err \in Errs : plainCall(err)
    \/ \E err \in Errs : retryAttempt(err)

SpecRetry == Init /\ [][NextRetry]_vars

\* ----------------------------------------------------- reading the log
\* positions of the events of a type dispatched for device d
eventsOfType(d, type) == {i \in DOMAIN events[d] : events[d][i].Type = type}

\* positions of the events of a type dispatched for the envelope of caller c
eventsFor(d, c, type) ==
    {i \in DOMAIN events[d] : events[d][i].Type = type /\ events[d][i].Message = c}

\* a pump is past its closeOnce.Do
pastOnce(d) == rp[d].pc = "done" \/ wp[d].pc \in {"failed", "drain", "done"}

\* the envelope of caller c is waiting in the queue of device d
queued(d, c) == \E i \in DOMAIN messages[d] : messages[d][i].caller = c

\* the envelope of caller c was accepted into the queue of device d
accepted(d, c) == caller[c].request # NoEnv /\ caller[c].dev = d

\* the envelope of caller c was taken from the queue by the drain: it was
\* accepted, it is no longer queued, and the loop never had it in hand (the
\* loop signals envelope.complete for every envelope it takes).
drained(d, c) ==
    /\ accepted(d, c)
    /\ ~queued(d, c)
    /\ caller[c].complete = "open"
    /\ wp[d].envelope.caller # c

\* ------------------------------------------------------------------ C1
\* C1: for every connected device and every interleaving of its teardown
\* triggers, pumpClose runs exactly once: never two disconnect events, and
\* exactly one as soon as the sync.Once is done or a pump is past it.
C1_TeardownExactlyOnce ==
    \A d \in Dev :
        /\ Cardinality(eventsOfType(d, "Disconnect")) <= 1
        /\ (closeOnce[d] = "done" \/ pastOnce(d))
               => Cardinality(eventsOfType(d, "Disconnect")) = 1

\* C1 witness: the write pump failed on a write and ran the teardown while
\* the read pump, failed as well, stood at the same sync.Once.
C1_Witness ==
    \E d \in Dev :
        /\ rp[d].pc = "exit"
        /\ wp[d].pc = "failed"
        /\ wp[d].writeError \in {"write", "encode"}
        /\ tdBy[d] = "write"
        /\ Cardinality(eventsOfType(d, "Disconnect")) = 1

\* ------------------------------------------------------------------ C2
\* C2: no failure is reported twice: over the whole run of the write pump at
\* most one message-failed event is dispatched for one envelope.
C2_FailureReportedOnce ==
    \A d \in Dev, c \in Callers :
        Cardinality(eventsFor(d, c, "MessageFailed")) <= 1

\* ------------------------------------------------------------------ C3
\* C3: every envelope the drain took from the queue is reported by exactly
\* one event, a message-failed event carrying the Message, Format and
\* Contents of that envelope, and by no message-sent event; so N envelopes
\* queued at teardown give N message-failed events.
C3_DrainReportsEachQueued ==
    \A d \in Dev, c \in Callers :
        drained(d, c) =>
            /\ Cardinality(eventsFor(d, c, "MessageFailed")) = 1
            /\ eventsFor(d, c, "MessageSent") = {}
            /\ \A i \in eventsFor(d, c, "MessageFailed") :
                   /\ events[d][i].Format = caller[c].request.Format
                   /\ events[d][i].Contents = caller[c].request.Contents

\* C3 witness: the write pump has returned after draining a full queue.
C3_Witness ==
    \E d \in Dev :
        /\ wp[d].pc = "done"
        /\ Cardinality({c \in Callers : drained(d, c)}) = QueueSize
        /\ Cardinality(eventsOfType(d, "MessageFailed")) = QueueSize
        /\ \E c \in Callers : drained(d, c) /\ caller[c].request.Contents # ""

\* ------------------------------------------------------------------ C4
\* C4: every message-failed event of the drain is marked as caused by the
\* closed connection: its Error is nil, whatever made the write pump exit.
C4_DrainErrorNil ==
    \A d \in Dev, c \in Callers :
        drained(d, c) =>
            \A i \in eventsFor(d, c, "MessageFailed") : events[d][i].Error = Nil

\* ------------------------------------------------------------------ C5
\* C5: no caller is left waiting on a queue that is never serviced again:
\* once the write pump of a device has returned, every envelope accepted into
\* its queue has been written or reported as failed, and the completion of
\* the caller that enqueued it has been signalled.
C5_NoCallerStranded ==
    \A d \in Dev, c \in Callers :
        (wp[d].pc = "done" /\ accepted(d, c)) =>
            /\ caller[c].complete # "open"
            /\ eventsFor(d, c, "MessageSent") \cup eventsFor(d, c, "MessageFailed") # {}

\* ------------------------------------------------------------------ C7
\* the teardown of device d was a graceful explicit shutdown: the write pump
\* ran it after the shutdown signal, with a nil writeError
graceful(d) == tdBy[d] = "write" /\ wp[d].writeError = Nil

\* C7: the disconnect event carries the error that caused the teardown: its
\* Error is nil exactly when the teardown was a graceful explicit shutdown.
C7_DisconnectCarriesError ==
    \A d \in Dev :
        \A i \in eventsOfType(d, "Disconnect") :
            (events[d][i].Error = Nil) <=> graceful(d)

\* ------------------------------------------------------------------ C6
\* the read pump finishes the handling of a decoded message in this step
handles(d) == rp[d].pc = "handle" /\ rp'[d].pc # "handle"

\* the events dispatched for device d in this step
newEvents(d) == SubSeq(events'[d], Len(events[d]) + 1, Len(events'[d]))

\* C6 as claimed: every decoded inbound frame produces a message-received
\* event, for a transaction part in addition to its transaction event.
C6_AlwaysMessageReceived ==
    [][\A d \in Dev :
          handles(d) =>
              \E i \in DOMAIN newEvents(d) : newEvents(d)[i].Type = "MessageReceived"]_vars

\* C6 amended: every decoded inbound frame produces exactly one event:
\* message-received for a message that is no transaction part; for a
\* transaction part transaction-complete when its key is open, and
\* transaction-broken with the error otherwise.
C6_OneEventPerMessage ==
    [][\A d \in Dev :
          handles(d) =>
              /\ Len(newEvents(d)) = 1
              /\ newEvents(d)[1].Message = rp[d].frame
              /\ newEvents(d)[1].Type =
                     (IF rp[d].frame.key = 0 THEN "MessageReceived"
                      ELSE IF rp[d].frame.key \in transactions[d] THEN "TransactionComplete"
                      ELSE "TransactionBroken")
              /\ (newEvents(d)[1].Type = "TransactionBroken") <=> (newEvents(d)[1].Error # Nil)]_vars

\* C6 witness: a reply completed an open transaction and was reported.
C6_Witness ==
    \E d \in Dev :
        /\ eventsOfType(d, "TransactionComplete") # {}
        /\ rp[d].pc = "read"

adds(d) ==
    /\ cpc[d] = "new"
    /\ cpc'[d] # "new"
    /\ connErr'[d] \notin {"MissingDeviceName", "UpgradeFailed", "PingerFailed"}

\* the registry is in this step left exactly as it was
registryKept ==
    /\ registry' = registry
    /\ \A e \in registry : devId'[e] = devId[e]

C11_FailedConnectLeavesNoTrace ==
    [][\A d \in Dev :
         connErr'[d] # Nil =>
            /\ connErr[d] = Nil => registry' = registry
            /\ d \notin registry'
            /\ events'[d] = <<>>
            /\ rp'[d].pc = "idle" /\ wp'[d].pc = "idle"
            /\ closeOnce'[d] = "new"]_vars

\* a registration was refused while another device was connected and had
\* its pumps running
C11_Witness ==
    \E d \in Dev, e \in Dev :
        /\ connErr[d] \in {"DuplicateID", "CapacityExceeded"}
        /\ e \in registry /\ cpc[e] = "running"
        /\ events[d] = <<>> /\ rp[d].pc = "idle" /\ wp[d].pc = "idle"

\* ----------------------------------------------------------------- C12
\* C12: for every Connect that succeeds exactly one connect event is
\* dispatched for its device, and it comes before every other event for that
\* device (message events, the disconnect event), also when Disconnect for
\* the identifier runs while Connect is still between add and the event.
C12_ConnectEventFirstAndOnce ==
    \A d \in Dev :
        /\ cpc[d] = "running" =>
              /\ events[d] # <<>>
              /\ events[d][1].Type = "Connect"
              /\ Cardinality(eventsOfType(d, "Connect")) = 1
        /\ cpc[d] # "running" => events[d] = <<>>

\* the device was disconnected by Disconnect after frames had arrived: its
\* log holds the connect event, message events and the disconnect event
C12_Witness ==
    \E d \in Dev :
        /\ cpc[d] = "running" /\ shutdown[d]
        /\ tdBy[d] = "write" /\ wp[d].writeError = Nil
        /\ eventsOfType(d, "MessageReceived") # {}
        /\ eventsOfType(d, "Disconnect") # {}
        /\ Len(events[d]) >= 3

\* ----------------------------------------------------------------- C13
\* C13: a Route call whose destination identifier is not registered at the
\* moment of the lookup returns DeviceNotFound in that one step, without
\* waiting for anything, and it changes neither the registry nor any
\* device's queue or transactions and dispatches no event.
C13_UnknownDestination ==
    [][\A c \in Callers :
         (/\ caller[c].pc = "idle"
          /\ caller'[c].pc # "idle"
          /\ caller'[c].dest \notin RegisteredIDs)
         => /\ caller'[c].pc = "done"
            /\ caller'[c].result = "DeviceNotFound"
            /\ caller'[c].request = NoEnv
            /\ registry' = registry
            /\ messages' = messages
            /\ acceptLog' = acceptLog
            /\ transactions' = transactions
            /\ events' = events]_vars

\* a Route call ended with DeviceNotFound for the identifier of a device
\* that had connected and whose websocket is still open, and for which
\* another call was accepted before it was removed from the registry
C13_Witness ==
    \E c \in Callers, b \in Callers, d \in Dev :
        /\ caller[c].pc = "done" /\ caller[c].result = "DeviceNotFound"
        /\ caller[c].dest = devId[d]
        /\ cpc[d] = "running" /\ conn[d] = "open" /\ d \notin registry
        /\ accepted(d, b)

\* ----------------------------------------------------------------- C14
\* C14: when Route was called for a registered device with a request that
\* expects a reply, and the read pump then handles a decoded frame whose
\* correlation key is that of the open transaction, the waiting call is
\* handed the response built from exactly that message (the device, the
\* decoded message, the wire format, the raw bytes of the frame) and a
\* transaction-complete event for that message is dispatched; a call that
\* returns a response returns that one.
C14_ReplyReachesCaller ==
    [][\A d \in Dev, c \in Callers :
         /\ (handles(d) /\ waits(c, d, rp[d].frame.key) /\ rp[d].frame.key \in transactions[d])
            => /\ caller'[c].response =
                     [Device |-> d, Message |-> rp[d].frame, Format |-> "Msgpack",
                      Contents |-> <<"wrp", rp[d].frame.key, rp[d].frame.n>>]
               /\ Len(newEvents(d)) = 1
               /\ newEvents(d)[1].Type = "TransactionComplete"
               /\ newEvents(d)[1].Message = rp[d].frame
               /\ rp[d].frame.key \notin transactions'[d]
         /\ (caller'[c].result = "Response" /\ caller'[c].dev = d)
            => /\ caller'[c].response.Message.key = caller'[c].request.Key
               /\ caller'[c].response.Device = d
               /\ \E i \in eventsOfType(d, "TransactionComplete") :
                     /\ events'[d][i].Message = caller'[c].response.Message
                     /\ events'[d][i].Contents = caller'[c].response.Contents]_vars

\* a Route call returned the response built from the second inbound frame,
\* the first one having been a message outside any transaction
C14_Witness ==
    \E c \in Callers, d \in Dev :
        /\ caller[c].pc = "done" /\ caller[c].result = "Response" /\ caller[c].dev = d
        /\ caller[c].response.Message.n = 2
        /\ eventsOfType(d, "MessageReceived") # {}
        /\ eventsOfType(d, "TransactionComplete") # {}

\* ----------------------------------------------------------------- C15
\* the callers of the frames written to the websocket of device d, in order
wireCallers(d) == [i \in DOMAIN wire[d] |-> wire[d][i].caller]

\* the messages of the message-sent events of device d, in order
sentMessages(d) ==
    LET sent == SelectSeq(events[d], LAMBDA e : e.Type = "MessageSent")
    IN  [i \in DOMAIN sent |-> sent[i].Message]

\* s is an initial part of t
IsPrefix(s, t) == Len(s) <= Len(t) /\ \A i \in DOMAIN s : s[i] = t[i]

\* C15: the envelopes accepted into one device's queue are written to its
\* websocket in the order of their acceptance, and the message-sent events
\* are dispatched in that same order, each before the next envelope is
\* written (the write pump stops at the first failure, so what is written is
\* an initial part of what was accepted).
C15_WritesInAcceptanceOrder ==
    \A d \in Dev :
        /\ IsPrefix(wireCallers(d), acceptLog[d])
        /\ IsPrefix(sentMessages(d), wireCallers(d))
        /\ Len(wireCallers(d)) <= Len(sentMessages(d)) + 1

\* two envelopes, accepted in the order caller 2, caller 1, were both
\* written and reported as sent
C15_Witness ==
    \E d \in Dev :
        /\ acceptLog[d] = <<2, 1>>
        /\ wireCallers(d) = <<2, 1>>
        /\ sentMessages(d) = <<2, 1>>

\* ----------------------------------------------------------------- C16
\* C16: the first reply under the key of an open transaction completes it
\* and is reported as transaction-complete; a reply under a key with no open
\* transaction (a second reply under the same key, or a key never opened) is
\* reported as transaction-broken with a non-nil Error and changes no
\* caller's response; in neither case is the device disconnected: the read
\* pump goes on reading and nothing of the teardown happens.
C16_SecondReplyBroken ==
    [][\A d \in Dev :
         (handles(d) /\ rp[d].frame.key # 0) =>
            /\ Len(newEvents(d)) = 1
            /\ newEvents(d)[1].Message = rp[d].frame
            /\ IF rp[d].frame.key \in transactions[d]
               THEN /\ newEvents(d)[1].Type = "TransactionComplete"
                    /\ newEvents(d)[1].Error = Nil
                    /\ rp[d].frame.key \notin transactions'[d]
               ELSE /\ newEvents(d)[1].Type = "TransactionBroken"
                    /\ newEvents(d)[1].Error # Nil
                    /\ caller' = caller
                    /\ transactions' = transactions
            /\ rp'[d].pc = "read"
            /\ registry' = registry /\ shutdown' = shutdown /\ conn' = conn
            /\ closeOnce' = closeOnce /\ wp' = wp]_vars

\* two replies under one key arrived: the first completed the transaction,
\* the second was reported broken, the caller holds the first, and the
\* device is still registered with its read pump reading
C16_Witness ==
    \E d \in Dev, c \in Callers :
        /\ Len(events[d]) = 3
        /\ events[d][2].Type = "TransactionComplete"
        /\ events[d][3].Type = "TransactionBroken" /\ events[d][3].Error # Nil
        /\ events[d][2].Message.key = events[d][3].Message.key
        /\ caller[c].response.Message = events[d][2].Message
        /\ d \in registry /\ closeOnce[d] = "new" /\ rp[d].pc = "read"

\* ----------------------------------------------------------------- C17
\* the events the read pump dispatches
ReadEventTypes == {"MessageReceived", "TransactionComplete", "TransactionBroken"}

\* C17: an inbound frame that is not binary, and a binary frame that does
\* not decode, is dropped: the step that reads it dispatches no event,
\* completes no transaction and starts no teardown, the read pump goes on
\* to read the next frame, and only decoded messages are ever handled or
\* reported in an event.
C17_BadFramesDropped ==
    [][\A d \in Dev :
         /\ frames'[d] # frames[d] =>
               /\ events' = events
               /\ transactions' = transactions
               /\ caller' = caller
               /\ closeOnce' = closeOnce /\ registry' = registry /\ conn' = conn
               /\ rp'[d].pc \in {"read", "handle"}
               /\ rp'[d].pc = "handle" => rp'[d].frame.kind = "wrp"
         /\ \A i \in DOMAIN events'[d] :
               events'[d][i].Type \in ReadEventTypes => events'[d][i].Message.kind = "wrp"]_vars

\* two frames were read and dropped while a transaction was open: the log
\* holds the connect event only, the transaction is still open and the
\* read pump is reading
C17_Witness ==
    \E d \in Dev :
        /\ frames[d] = 2
        /\ Len(events[d]) = 1
        /\ transactions[d] # {}
        /\ rp[d].pc = "read" /\ closeOnce[d] = "new" /\ d \in registry

\* ----------------------------------------------------------------- C18
\* a Route call of caller c moves in this step (lookup, enqueue or queue
\* full, return with a reply, a write outcome or an expired deadline)
routeMoves(c) == caller'[c].pc # caller[c].pc

invokedErrs == [k \in DOMAIN rt.invoked |-> rt.invoked[k].err]

\* the predicate of the transactor classifies the error as retryable
retryable(err) ==
    err # Nil /\ (rt.ShouldRetry = "always" \/ err = "temporary")

\* C19: a transactor built with Retries = n >= 1 around a function whose
\* every call fails with an error the predicate classifies as retryable
\* invokes the function exactly n + 1 times in one call and returns the
\* error of the last invocation.
C19_ExhaustsAllAttempts ==
    /\ (rt.Retries >= 1 /\ \A k \in DOMAIN invokedErrs : retryable(invokedErrs[k]))
       => /\ Len(rt.invoked) <= rt.Retries + 1
          /\ rt.pc = "returned" <=> Len(rt.invoked) = rt.Retries + 1
    /\ (rt.pc = "returned" /\ rt.invoked # <<>>)
       => rt.err = invokedErrs[Len(rt.invoked)]

\* a transactor with two retries and the default predicate returned the
\* error of its third invocation, all three having failed temporarily
C19_Witness ==
    /\ rt.pc = "returned" /\ rt.Retries = 2 /\ rt.ShouldRetry = "default"
    /\ invokedErrs = <<"temporary", "temporary", "temporary">>
    /\ rt.err = "temporary" /\ rt.response = 3

\* ----------------------------------------------------------------- C20
\* C20: in one call of a retry transactor the first invocation that
\* succeeds, or that fails with an error the predicate does not classify as
\* retryable, ends the call: the function is not invoked again and the
\* response and error of that invocation are returned. Under the default
\* predicate an error is retryable exactly when it exposes Temporary() and
\* Temporary() returns true: only such errors are followed by another
\* invocation, and such an error ends the call only when no attempt is left.
C20_FirstFinalAttemptEnds ==
    /\ \A k \in DOMAIN rt.invoked :
          k < Len(rt.invoked) =>
             /\ rt.invoked[k].err # Nil
             /\ rt.ShouldRetry = "default" => rt.invoked[k].err = "temporary"
    /\ (rt.invoked # <<>> /\ rt.pc = "loop") =>
          /\ rt.invoked[Len(rt.invoked)].err # Nil
          /\ rt.ShouldRetry = "default" => rt.invoked[Len(rt.invoked)].err = "temporary"
    /\ (rt.pc = "returned" /\ rt.invoked # <<>>) =>
          /\ rt.response = rt.invoked[Len(rt.invoked)].response
          /\ rt.err = rt.invoked[Len(rt.invoked)].err
          /\ (rt.Retries >= 1 /\ rt.ShouldRetry = "default" /\ rt.err = "temporary")
                => Len(rt.invoked) = rt.Retries + 1

\* with two retries and the default predicate the second invocation failed
\* with an error whose Temporary() is false, and the call returned it with
\* one attempt left
C20_Witness ==
    /\ rt.pc = "returned" /\ rt.Retries = 2 /\ rt.ShouldRetry = "default"
    /\ invokedErrs = <<"temporary", "permanent">>
    /\ rt.err = "permanent" /\ rt.response = 2

\* ----------------------------------------------------------------- C21
\* C21: when a call of a retry transactor has returned, the counter has
\* grown by the number of attempts made after the first one: by n when all
\* n + 1 attempts of a transactor with Retries = n failed retryably, by
\* nothing when the first attempt succeeded.
C21_CounterCountsRetries ==
    (rt.pc = "returned" /\ rt.invoked # <<>>) => rt.Counter = Len(rt.invoked) - 1

\* ----------------------------------------------------------------- C22
\* C22: a transactor built with Retries <= 0 is the wrapped function itself:
\* a call invokes the function exactly once and returns its response and
\* error as they are, whether or not the predicate would classify the error
\* as retryable, and the counter is never touched.
C22_NotDecorated ==
    rt.Retries <= 0 =>
        /\ Len(rt.invoked) <= 1
        /\ rt.Counter = 0
        /\ rt.pc = "returned" =>
              /\ Len(rt.invoked) = 1
              /\ rt.response = rt.invoked[1].response
              /\ rt.err = rt.invoked[1].err

\* a transactor built with Retries = 0 and a predicate that retries every
\* error returned the temporary error of its only invocation
C22_Witness ==
    /\ rt.pc = "returned" /\ rt.Retries = 0 /\ rt.ShouldRetry = "always"
    /\ invokedErrs = <<"temporary">>
    /\ rt.err = "temporary" /\ rt.response = 1 /\ rt.Counter = 0

\* ----------------------------------------------------------------- C23
\* a call of the registry's remove or removeIf is seen in this step: its
\* return value is new, or devices leave the registry while every pump and
\* every Connect stays where it is
removes ==
    \/ ret' # ret
    \/ registry' # registry /\ rp' = rp /\ wp' = wp /\ cpc' = cpc

\* a Disconnect call returns in this step
disconnectReturns == removes /\ ret'.op = "Disconnect"

\* the teardown of device d has run to its end
tornDown(d) ==
    /\ d \notin registry
    /\ conn[d] = "closed"
    /\ Cardinality(eventsOfType(d, "Disconnect")) = 1
    /\ wp[d].pc = "done"

\* C23: Disconnect(id) returns true exactly when a device is registered
\* under id at the call; when it returns no device is registered under id
\* and the close of the removed device was requested; only a new connection
\* registers a device, so a second Disconnect(id) without a new connection
\* under id in between returns false. The removal
\* leads to the teardown of the device: the write pump ends, the websocket is
\* closed and one disconnect event is dispatched, and never a second one.
C23_DisconnectTearsDown ==
    /\ [][disconnectReturns =>
            \A id \in ret'.arg :
                /\ ret'.ok <=> id \in RegisteredIDs
                /\ id \notin {devId[e] : e \in registry'}
                /\ \A e \in registry : devId[e] = id => shutdown'[e]
                /\ \A e \in registry : devId[e] # id => e \in registry']_vars
    /\ [][\A d \in Dev :
            (d \notin registry /\ d \in registry') => cpc[d] = "new"]_vars
    /\ [](\A d \in Dev : Cardinality(eventsOfType(d, "Disconnect")) <= 1)
    /\ \A d \in DiscDev : shutdown[d] ~> tornDown(d)

\* Disconnect returned true for a device and, called again, false, and the
\* device was torn down through the shutdown case of its write pump
C23_Witness ==
    \E d \in Dev :
        /\ ret.op = "Disconnect" /\ ~ret.ok /\ ret.arg = {devId[d]}
        /\ tornDown(d)
        /\ tdBy[d] = "write" /\ wp[d].writeError = Nil

\* ----------------------------------------------------------------- C24
\* a DisconnectIf call returns in this step
disconnectIfReturns == removes /\ ret'.op = "DisconnectIf"

\* C24: DisconnectIf(filter) removes in one step of the registry exactly the
\* devices whose identifier passes the filter, leaves every other device
\* registered, returns the number of devices it removed and requests the
\* close of each of them; no Connect, Disconnect or Route sees the registry
\* with only a part of the matches removed.
C24_DisconnectIfRemovesMatches ==
    [][disconnectIfReturns =>
        /\ registry' = {e \in registry : devId[e] \notin ret'.arg}
        /\ ret'.count = Cardinality(registry \ registry')
        /\ \A e \in registry \ registry' : shutdown'[e]
        /\ \A e \in registry' : shutdown'[e] = shutdown[e]
        /\ devId' = devId /\ cpc' = cpc /\ caller' = caller]_vars

\* DisconnectIf returned 1 with two devices registered: the device whose
\* identifier passed the filter is gone, the other one is still registered
C24_Witness ==
    /\ ret.op = "DisconnectIf" /\ ret.count = 1
    /\ \E d \in registry : devId[d] \notin ret.arg /\ ~shutdown[d]
    /\ \E e \in Dev \ registry :
        devId[e] \in ret.arg /\ shutdown[e] /\ wp[e].pc = "select"

\* ----------------------------------------------------------------- C25
\* the pinger returned an error to the write pump of device d
pingFailed(d) == wp[d].writeError = "ping"

\* C25: once the pinger has returned an error the write pump is out of its
\* loop for good: it takes no envelope for writing, writes nothing, and
\* envelopes leave the queue only through the drain; the teardown follows:
\* the device leaves the registry, the websocket is closed and one
\* disconnect event is dispatched, and the write pump ends.
C25_PingFailureIsFatal ==
    /\ [][\A d \in PumpDev : pingFailed(d) =>
            /\ pingFailed(d)'
            /\ wp'[d].pc \notin {"select", "dispatch"}
            /\ wp'[d].envelope = NoEnv
            /\ wire'[d] = wire[d]
            /\ Len(messages'[d]) < Len(messages[d]) => wp[d].pc = "drain"]_vars
    /\ [](\A d \in PumpDev :
            pingFailed(d) /\ wp[d].pc \in {"failed", "drain", "done"} =>
                /\ d \notin registry
                /\ conn[d] = "closed"
                /\ Cardinality(eventsOfType(d, "Disconnect")) = 1)
    /\ \A d \in PumpDev : pingFailed(d) ~> tornDown(d)

\* the pinger failed with an envelope still queued; the write pump performed
\* the teardown and its drain reported the envelope with the pinger's error
C25_Witness ==
    \E d \in PumpDev :
        /\ pingFailed(d) /\ tornDown(d) /\ tdBy[d] = "write"
        /\ wire[d] = <<>>
        /\ \E i \in 1..Len(events[d]) :
            events[d][i].Type = "MessageFailed" /\ events[d][i].Error = "ping"

\* ----------------------------------------------------------------- C26
\* the queue of device d has no free slot
full(d) == Len(messages[d]) >= options.deviceMessageQueueSize

C27_NoAuthWriteAfterClose ==
    \A d \in Dev : auth[d] # "late"

\* ----------------------------------------------------------------- C28
\* the write pump of device d takes an envelope in this step
takesEnvelope(d) == wp[d].pc = "select" /\ wp'[d].pc = "dispatch"

\* C28: for the envelope it takes, the write pump writes the request's raw
\* bytes as they are exactly when the request is in the Msgpack format and
\* its raw bytes are not empty, and the encoding of the request's message in
\* every other case; only a request that is encoded can fail to encode, and
\* then nothing is written; the frame appears on the websocket exactly when
\* the write ends without an error.
C28_RawBytesOrEncoding ==
    [][\A d \in PumpDev : takesEnvelope(d) =>
        LET env == wp'[d].envelope
            err == wp'[d].writeError
            raw == env.Format = "Msgpack" /\ env.Contents # ""
            frame == [caller |-> env.caller,
                      bytes |-> IF raw THEN [contents |-> env.Contents, encoded |-> 0]
                                ELSE [contents |-> "", encoded |-> env.Message]]
        IN  /\ env = Head(messages[d])
            /\ err = "encode" => ~raw
            /\ wire'[d] = IF err = Nil THEN Append(wire[d], frame) ELSE wire[d]]_vars

\* the websocket took the raw bytes of a request in the Msgpack format, and
\* the encoding of the message of a request whose raw bytes are in another
\* format
C28_Witness ==
    \E d \in PumpDev :
        /\ \E i \in DOMAIN wire[d] :
            /\ wire[d][i].bytes = contents("raw")
            /\ caller[wire[d][i].caller].request.Format = "Msgpack"
        /\ \E i \in DOMAIN wire[d] :
            /\ wire[d][i].bytes = Encode(wire[d][i].caller)
            /\ caller[wire[d][i].caller].request.Format = "JSON"
            /\ caller[wire[d][i].caller].request.Contents = "raw"

\* ----------------------------------------------------------------- C29
\* encoding or writing an envelope failed in the write pump of device d
envelopeFailed(d) == wp[d].writeError \in {"encode", "write"}

\* a message-failed event for the envelope of caller c was dispatched
reportedFailed(d, c) == eventsFor(d, c, "MessageFailed") # {}

\* C29: when encoding or writing an envelope fails, the write pump puts the
\* error on the envelope's completion signal and dispatches message-failed
\* with that error for it; from then on it writes nothing and never selects
\* again, and an envelope leaves the queue only with a message-failed event
\* of the drain; every envelope queued at the failure is reported so in the
\* end. When the write succeeds, the completion signal is closed with no
\* error on it, message-sent is dispatched and the loop goes on.
C29_FailureStopsWriting ==
    /\ [][\A d \in PumpDev : wp[d].pc = "dispatch" /\ wp'[d] # wp[d] =>
            LET env == wp[d].envelope
                err == wp[d].writeError
            IN  IF err # Nil
                THEN /\ caller'[env.caller].complete = "error"
                     /\ events'[d] = Append(events[d],
                            Event("MessageFailed", env.Message, env.Format, env.Contents, err))
                     /\ wp'[d].pc = "exit" /\ wp'[d].writeError = err
                ELSE /\ caller'[env.caller].complete = "closed"
                     /\ events'[d] = Append(events[d],
                            Event("MessageSent", env.Message, env.Format, env.Contents, Nil))
                     /\ wp'[d].pc = "select"]_vars
    /\ [][\A d \in PumpDev : envelopeFailed(d) =>
            /\ wire'[d] = wire[d]
            /\ wp'[d].pc # "select" /\ wp'[d].writeError = wp[d].writeError
            /\ \A c \in Callers : queued(d, c) /\ ~queued(d, c)' =>
                    /\ wp[d].pc = "drain"
                    /\ reportedFailed(d, c)']_vars
    /\ \A d \in PumpDev : \A c \in Callers :
            (envelopeFailed(d) /\ wp[d].pc = "dispatch" /\ queued(d, c))
                ~> (reportedFailed(d, c) /\ ~queued(d, c))

\* the write of the first envelope succeeded and the write of the second
\* failed: the first caller's signal is closed, the second's carries the
\* error, and the pump has ended with nothing written after the first frame
C29_Witness ==
    \E d \in PumpDev :
        /\ wp[d].pc = "done" /\ wp[d].writeError = "write"
        /\ caller[1].complete = "closed" /\ caller[2].complete = "error"
        /\ eventsFor(d, 1, "MessageSent") # {} /\ reportedFailed(d, 2)
        /\ wireCallers(d) = <<1>>

\* ----------------------------------------------------------------- C30
\* what the listeners see of event e: their calls and returns in order
seen(e) == lst.calls[e]

\* a complete delivery of an event: every listener of the list in its turn,
\* called and returned before the next one is called
delivery ==
    [k \in 1..(2 * Len(lst.listeners)) |->
        [op |-> IF k % 2 = 1 THEN "call" ELSE "return",
         listener |-> lst.listeners[(k + 1) \div 2]]]

\* event e is in the hands of a pump that has called dispatch with it
dispatching(e) == \E p \in Pumps : lst.run[p].pc # "idle" /\ lst.run[p].event = e

\* C30: every event dispatched goes to every configured listener exactly
\* once and in the configured order, each listener returning before the next
\* is called; dispatch has returned for an event, and the pump has gone on,
\* only when the delivery is complete, and a pump inside dispatch has
\* delivered exactly to the listeners before its position in the list.
C30_ListenersInOrder ==
    /\ \A e \in 1..lst.events :
        /\ IsPrefix(seen(e), delivery)
        /\ ~dispatching(e) => seen(e) = delivery
    /\ \A p \in Pumps :
        LET r == lst.run[p]
        IN  r.pc # "idle" =>
                Len(seen(r.event)) = 2 * r.i + (IF r.pc = "listener" THEN 1 ELSE 0)

\* the two pumps are inside dispatch at the same time, each with its own
\* event, a third event having been delivered before: the read pump is in
\* the last listener of the list while the write pump is in the first one
C30_Witness ==
    /\ Len(lst.listeners) = MaxListeners
    /\ \A i, j \in DOMAIN lst.listeners : i # j => lst.listeners[i] # lst.listeners[j]
    /\ lst.run["read"].pc = "listener" /\ lst.run["read"].i = MaxListeners - 1
    /\ lst.run["write"].pc = "listener" /\ lst.run["write"].i = 0
    /\ \E e \in 1..lst.events : ~dispatching(e) /\ seen(e) = delivery

\* ----------------------------------------------------------------- C31
\* C31: when the parameters pass the required-validation, the command is
\* TEST_SET if the new-CID header is not empty (OldCid and NewCid are the
\* values of the headers, SyncCmc that of its header when there is one) and
\* SET otherwise, and no error is returned; when the validation fails with
\* an error that is neither "cannot be blank" nor mentions the name, and the
\* attribute validation succeeds, the command is SET_ATTRS and no error is
\* returned; in every other case an error is returned and Command is what
\* it was on entry (unset for the SetWDMP of SetFlavorFormat).
C31_DeducedCommand ==
    set.pc = "returned" =>
        LET passes == set.required = Nil
            attrsTried == /\ set.required \notin {Nil, "cannot be blank"}
                          /\ ~Contains(set.required, "name")
        IN  /\ passes /\ set.header.NewCid # "" =>
                /\ set.err = Nil /\ set.wdmp.Command = "TEST_SET"
                /\ set.wdmp.OldCid = set.header.OldCid
                /\ set.wdmp.NewCid = set.header.NewCid
                /\ set.header.SyncCmc # "" => set.wdmp.SyncCmc = set.header.SyncCmc
            /\ passes /\ set.header.NewCid = "" =>
                set.err = Nil /\ set.wdmp.Command = "SET"
            /\ attrsTried /\ set.attrs = Nil =>
                set.err = Nil /\ set.wdmp.Command = "SET_ATTRS"
            /\ ~passes /\ ~(attrsTried /\ set.attrs = Nil) =>
                set.err # Nil /\ set.wdmp = set.in

\* a call whose required-validation failed on the value of a parameter and
\* whose attribute validation succeeded returned SET_ATTRS without an error
C31_Witness ==
    /\ set.pc = "returned"
    /\ set.required = "0: (value: cannot be blank.)." /\ set.attrs = Nil
    /\ set.in.Command = "" /\ set.wdmp.Command = "SET_ATTRS" /\ set.err = Nil

\* ----------------------------------------------------------------- C32
\* pumpClose of device d calls m.devices.remove in this step
teardownRemoves(d) ==
    \E p \in Pumps : pumpPc(d, p) = "tdRemove" /\ pumpPc(d, p)' = "tdClose"

\* C32: the teardown of a device takes only that device out of the registry
\* and requests the close of no other: a device that connected under the same
\* identifier after an explicit Disconnect stays registered.
C32_TeardownRemovesOnlyItsDevice ==
    [][\A d \in Dev : teardownRemoves(d) =>
        /\ registry \ registry' \subseteq {d}
        /\ \A e \in Dev \ {d} : shutdown'[e] = shutdown[e]]_vars

\* ----------------------------------------------------------------- C33
\* C33: at most one goroutine is inside a write call on the websocket of a
\* device at any time: the write of an envelope, a ping and the write of the
\* auth status message never overlap.
C33_OneWriter ==
    \A d \in Dev : Cardinality(writing[d]) <= 1

\* ----------------------------------------------------------------- C34
\* C34: after the disconnect event of a device only message-failed events
\* are dispatched for it.
C34_OnlyFailedAfterDisconnect ==
    \A d \in Dev : \A i, j \in DOMAIN events[d] :
        (i < j /\ events[d][i].Type = "Disconnect") => events[d][j].Type = "MessageFailed"

\* ----------------------------------------------------------------- C35
\* C35: Close is called on the websocket of a device at most once, whichever
\* trigger ends the connection.
C35_ClosedOnce ==
    \A d \in Dev : closeCalls[d] <= 1

\* ----------------------------------------------------------------- C36
\* a teardown trigger has occurred for device d: its close was requested
\* (explicit disconnect, or the registry's remove in pumpClose), or one of
\* its pumps has left its loop (read failure, write or ping failure)
triggered(d) == shutdown[d] \/ rp[d].pc = "exit" \/ wp[d].pc = "exit"

\* both pumps of device d have returned
terminated(d) == rp[d].pc = "done" /\ wp[d].pc = "done"

\* C36: once a teardown trigger has occurred for a device, both of its
\* pumps return in the end: the read pump after the websocket was closed,
\* the write pump although envelopes are queued and ticks keep arriving.
C36_PumpsTerminate ==
    \A d \in PumpDev : triggered(d) ~> terminated(d)

\* both pumps have returned after a failed ping: the write pump tore the
\* device down and the read pump stopped on the closed websocket
C36_Witness ==
    \E d \in PumpDev :
        /\ terminated(d) /\ wp[d].writeError = "ping" /\ tdBy[d] = "write"
        /\ conn[d] = "closed" /\ shutdown[d]

\* ----------------------------------------------------------------- C37
\* C37: the write pump is past its closeOnce.Do only when pumpClose has
\* returned, whichever pump ran it: every event of its deferred code, the
\* message-failed events of the drain among them, is dispatched after the
\* disconnect event of the device.
C37_DrainAfterDisconnect ==
    /\ [][\A d \in PumpDev :
            wp[d].pc \in {"failed", "drain"} /\ events'[d] # events[d] =>
                /\ eventsOfType(d, "Disconnect") # {}
                /\ events'[d][Len(events'[d])].Type = "MessageFailed"]_vars
    /\ [](\A d \in PumpDev :
            wp[d].pc \in {"failed", "drain", "done"} => closeOnce[d] = "done")

\* the read pump ran the teardown, and the drain of the write pump reported
\* a queued envelope after the disconnect event
C37_Witness ==
    \E d \in PumpDev : \E c \in Callers :
        /\ tdBy[d] = "read" /\ wp[d].pc = "done"
        /\ drained(d, c)
        /\ \E i \in eventsOfType(d, "Disconnect") :
            \E j \in eventsFor(d, c, "MessageFailed") : i < j

\* ----------------------------------------------------------------- C38
\* the disconnect event of device d is dispatched in this step
disconnectDispatched(d) ==
    Cardinality(eventsOfType(d, "Disconnect")') > Cardinality(eventsOfType(d, "Disconnect"))

\* pumpClose of device d is at the given statement, in either pump
inPumpClose(d, at) == \E p \in Pumps : pumpPc(d, p) = at

\* C38: when the disconnect event of a device is dispatched, the device is
\* not in the registry and Close has been called on its websocket; pumpClose
\* removes, then closes, then dispatches: it closes only after the removal,
\* and until it dispatches no disconnect event exists for the device.
C38_RemoveCloseEvent ==
    /\ [][\A d \in Dev : disconnectDispatched(d) =>
            /\ d \notin registry /\ d \notin registry'
            /\ closeCalls[d] >= 1 /\ conn[d] = "closed"
            /\ inPumpClose(d, "tdEvent")]_vars
    /\ [][\A d \in Dev : inPumpClose(d, "tdClose") /\ ~inPumpClose(d, "tdClose")' =>
            /\ closeCalls'[d] = closeCalls[d] + 1
            /\ inPumpClose(d, "tdEvent")'
            /\ d \notin registry]_vars
    /\ [](\A d \in Dev :
            inPumpClose(d, "tdRemove") \/ inPumpClose(d, "tdClose") \/ inPumpClose(d, "tdEvent")
                => eventsOfType(d, "Disconnect") = {})
    /\ [](\A d \in Dev : inPumpClose(d, "tdClose") \/ inPumpClose(d, "tdEvent")
                => d \notin registry)

\* the read of a device failed and its pumpClose, not a Disconnect call,
\* took it out of the registry; the websocket was closed once and the
\* disconnect event dispatched
C38_Witness ==
    \E d \in Dev :
        /\ ret = NoReturn /\ tdBy[d] = "read"
        /\ eventsOfType(d, "Disconnect") # {}
        /\ d \notin registry /\ closeCalls[d] = 1 /\ wp[d].pc = "select"

====
